---- MODULE Spec2Model ----
(***************************************************************************)
(* State-machine model of the robotics-server backend (src/server):        *)
(*   - storage.py : DataStore (re-entrant lock, atomic_write_json)         *)
(*   - auth.py    : admins, sessions, session validation                   *)
(*   - settings.py: admin user management                                  *)
(*   - uploads.py : create_upload_batch, admin_delete_many                 *)
(* Three specifications share the variables; each one moves the variables  *)
(* of one subsystem and leaves the others at their initial value:          *)
(*   SpecStore  - threads using one collection file of a DataStore         *)
(*   SpecAuth   - admin requests (login, logout, user management)          *)
(*   SpecUpload - the upload pipeline and admin delete                     *)
(***************************************************************************)
EXTENDS Integers, Sequences, FiniteSets, TLC

VARIABLES
    \* ---- storage.py: one DataStore instance and one collection file
    lockOwner,   \* thread holding DataStore._lock (NoThread when free)
    lockDepth,   \* re-entrancy depth of the RLock
    tpc,         \* tpc[t]: position of thread t in its store call
    top,         \* top[t]: operation thread t runs ("update" or "split")
    tdata,       \* tdata[t]: the payload thread t holds in memory
    target,      \* content of the collection file (sequence of tokens)
    tmp,         \* tmp[t]: content of t's NamedTemporaryFile, or NoFile
    lastRead,    \* result of the last lock-free read of the collection file
    crashes,     \* number of process crashes so far
    \* ---- auth.py, settings.py, app.py: admins and sessions
    admins,      \* admins.json: the list of admin records
    sessions,    \* sessions.json: the list of session records
    clock,       \* datetime.now(timezone.utc), in hours
    reqs,        \* reqs[r]: an admin request between its dependency and its body
    resp,        \* the response last sent and not yet delivered, or NoResp
    nextAdminId, \* ids not yet drawn by secrets.token_hex (admins)
    nextToken,   \* tokens not yet drawn by secrets.token_urlsafe (sessions)
    ev,          \* the handler the event loop is running
    revoked,     \* history: tokens whose admin was deactivated or removed
                 \* while the session was in the collection
    \* ---- uploads.py: uploaders, uploads and the files directory
    uploaders,   \* uploaders.json: the list of uploader records
    uploads,     \* uploads.json: the batches and the file records
    blobs,       \* files directory: bytes on disk of each stored name
    up,          \* up[u]: upload request u and the locals of its coroutine
    \* ---- cleanup.py, app.py: the retention daemon
    daemon,      \* the cleanup_daemon task: its position and what it has done
    shutdown     \* app.state.shutdown_event is set

storeVars ==
    <<lockOwner, lockDepth, tpc, top, tdata, target, tmp, lastRead, crashes>>

authVars == <<admins, sessions, clock, reqs, ev, resp, nextAdminId, nextToken, revoked>>

uploadVars == <<uploaders, uploads, blobs, up>>

daemonVars == <<daemon, shutdown>>

vars == <<storeVars, authVars, uploadVars, daemonVars>>

\* what the steps of one part of the server leave alone
NotStore == <<authVars, uploadVars, daemonVars>>
NotAuth == <<storeVars, uploadVars, daemonVars>>
NotUpload == <<storeVars, authVars, daemonVars>>

(***************************************************************************)
(* Bounds                                                                  *)
(***************************************************************************)
NumThreads == 2
MaxCrashes == 1
MaxInflight == 2
MaxAdmins == 2
MaxTokens == 2
MaxClock == 12
MaxUploads == 2
MaxFiles == 2
MaxUploadClock == 24

Threads == 1..NumThreads
NoThread == 0
NoFile == <<"nofile">>

(***************************************************************************)
(* storage.py: documents and their serialized form                         *)
(***************************************************************************)
\* A document of the collection is the set of entries the mutators put in
\* it (one entry per mutating thread, like one key of a JSON object).
\* storage.py:25-29 DEFAULT_*: the default payload has no entry.
DefaultDoc == {}

RECURSIVE SortedSeq(_)
SortedSeq(S) ==
    IF S = {} THEN <<>>
    ELSE LET m == CHOOSE x \in S : \A y \in S : x <= y
         IN <<m>> \o SortedSeq(S \ {m})

OpenTok == <<"open", 0>>
CloseTok == <<"close", 0>>
EntryTok(t) == <<"entry", t>>

\* json.dump (storage.py:51): the text of a document, as a token sequence.
Serialize(doc) ==
    LET keys == SortedSeq(doc)
    IN <<OpenTok>> \o [i \in 1..Len(keys) |-> EntryTok(keys[i])] \o <<CloseTok>>

\* json.load (storage.py:91): a text is a document only when it is complete.
WellFormed(text) ==
    /\ Len(text) >= 2
    /\ text[1] = OpenTok
    /\ text[Len(text)] = CloseTok
    /\ \A i \in 2..(Len(text) - 1) : text[i][1] = "entry"

Parse(text) ==
    IF WellFormed(text)
    THEN [ok |-> TRUE, doc |-> {text[i][2] : i \in 2..(Len(text) - 1)}]
    ELSE [ok |-> FALSE, doc |-> {}]

\* The mutation thread t applies to the payload it read: add its entry.
Mark(t) == t
Mutate(doc, t) == doc \cup {Mark(t)}

(***************************************************************************)
(* storage.py: DataStore._lock, a threading.RLock                          *)
(***************************************************************************)
\* RLock.acquire succeeds for t when the lock is free or t already owns it.
CanLock(t) == lockOwner \in {NoThread, t}

\* `with self._lock:` entered by t.
Acquire(t) ==
    /\ CanLock(t)
    /\ lockOwner' = t
    /\ lockDepth' = IF lockOwner = t THEN lockDepth + 1 ELSE 1

\* `with self._lock:` left by t.
Release(t) ==
    IF lockOwner = t /\ lockDepth > 1
    THEN /\ lockDepth' = lockDepth - 1
         /\ lockOwner' = lockOwner
    ELSE IF lockOwner = t
    THEN /\ lockDepth' = 0
         /\ lockOwner' = NoThread
    ELSE UNCHANGED <<lockOwner, lockDepth>>

StoreInit ==
    /\ lockOwner = NoThread
    /\ lockDepth = 0
    /\ tpc = [t \in Threads |-> "idle"]
    /\ top = [t \in Threads |-> "none"]
    /\ tdata = [t \in Threads |-> DefaultDoc]
    /\ target = Serialize(DefaultDoc)
    /\ tmp = [t \in Threads |-> NoFile]
    /\ lastRead = Parse(Serialize(DefaultDoc))
    /\ crashes = 0

(***************************************************************************)
(* storage.py:138-143 DataStore.update(reader, writer, mutator)            *)
(***************************************************************************)
\* A variant of update that does not take the lock around the three calls
\* (each of reader and writer still locks for itself).
UpdateAcquireNoLock(t) ==
    /\ tpc[t] = "idle"
    /\ tpc' = [tpc EXCEPT ![t] = "u_locked"]
    /\ top' = [top EXCEPT ![t] = "update"]
    /\ UNCHANGED <<lockOwner, lockDepth, tdata, target, tmp, lastRead, crashes>>
    /\ UNCHANGED NotStore

\* line 139: with self._lock
UpdateAcquire(t) ==
    /\ tpc[t] = "idle"
    /\ Acquire(t)
    /\ tpc' = [tpc EXCEPT ![t] = "u_locked"]
    /\ top' = [top EXCEPT ![t] = "update"]
    /\ UNCHANGED <<tdata, target, tmp, lastRead, crashes>>
    /\ UNCHANGED NotStore

\* line 140: data = reader(), i.e. _read_json (lines 86-91), which takes the
\* lock re-entrantly, reads the whole file and releases its level again.
UpdateRead(t) ==
    /\ tpc[t] = "u_locked"
    /\ CanLock(t)
    /\ tdata' = [tdata EXCEPT ![t] = Parse(target).doc]
    /\ tpc' = [tpc EXCEPT ![t] = "u_read"]
    /\ UNCHANGED <<lockOwner, lockDepth, top, target, tmp, lastRead, crashes>>
    /\ UNCHANGED NotStore

\* line 141: mutated = mutator(data)
UpdateMutate(t) ==
    /\ tpc[t] = "u_read"
    /\ tdata' = [tdata EXCEPT ![t] = Mutate(tdata[t], t)]
    /\ tpc' = [tpc EXCEPT ![t] = "u_mut"]
    /\ UNCHANGED <<lockOwner, lockDepth, top, target, tmp, lastRead, crashes>>
    /\ UNCHANGED NotStore

\* line 139, leaving the with block after writer(mutated) returned
UpdateRelease(t) ==
    /\ tpc[t] = "u_written"
    /\ Release(t)
    /\ tpc' = [tpc EXCEPT ![t] = "done"]
    /\ UNCHANGED <<top, tdata, target, tmp, lastRead, crashes>>
    /\ UNCHANGED NotStore

(***************************************************************************)
(* The read-then-write sequence of the request handlers: store.read_x()    *)
(* and store.write_x(payload) as two separately locked calls               *)
(* (e.g. auth.py:112-116, settings.py:229-261).                            *)
(***************************************************************************)
\* A handler that keeps the lock from its read on
SplitReadKeepsLock(t) ==
    /\ tpc[t] = "idle"
    /\ Acquire(t)
    /\ top' = [top EXCEPT ![t] = "split"]
    /\ tdata' = [tdata EXCEPT ![t] = Parse(target).doc]
    /\ tpc' = [tpc EXCEPT ![t] = "s_read"]
    /\ UNCHANGED <<target, tmp, lastRead, crashes>>
    /\ UNCHANGED NotStore

\* storage.py:86-91 _read_json as one locked call
SplitRead(t) ==
    /\ tpc[t] = "idle"
    /\ CanLock(t)
    /\ top' = [top EXCEPT ![t] = "split"]
    /\ tdata' = [tdata EXCEPT ![t] = Parse(target).doc]
    /\ tpc' = [tpc EXCEPT ![t] = "s_read"]
    /\ UNCHANGED <<lockOwner, lockDepth, target, tmp, lastRead, crashes>>
    /\ UNCHANGED NotStore

\* the handler changes the payload it holds
SplitMutate(t) ==
    /\ tpc[t] = "s_read"
    /\ tdata' = [tdata EXCEPT ![t] = Mutate(tdata[t], t)]
    /\ tpc' = [tpc EXCEPT ![t] = "s_mut"]
    /\ UNCHANGED <<lockOwner, lockDepth, top, target, tmp, lastRead, crashes>>
    /\ UNCHANGED NotStore

(***************************************************************************)
(* storage.py:93-95 _write_json and storage.py:48-53 atomic_write_json     *)
(***************************************************************************)
\* lines 94 and 50: take the lock, create the (empty) temporary file
WriteBegin(t) ==
    /\ tpc[t] \in {"u_mut", "s_mut"}
    /\ Acquire(t)
    /\ tmp' = [tmp EXCEPT ![t] = <<>>]
    /\ tpc' = [tpc EXCEPT ![t] = "w_dump"]
    /\ UNCHANGED <<top, tdata, target, lastRead, crashes>>
    /\ UNCHANGED NotStore

\* A variant of the writer that truncates the collection file and writes
\* the text straight into it.
WriteChunkInPlace(t) ==
    /\ tpc[t] = "w_dump"
    /\ Len(tmp[t]) < Len(Serialize(tdata[t]))
    /\ tmp' = [tmp EXCEPT ![t] = SubSeq(Serialize(tdata[t]), 1, Len(tmp[t]) + 1)]
    /\ target' = tmp'[t]
    /\ UNCHANGED <<lockOwner, lockDepth, tpc, top, tdata, lastRead, crashes>>
    /\ UNCHANGED NotStore

\* line 51: json.dump writes the text piece by piece into the temporary file
WriteChunk(t) ==
    /\ tpc[t] = "w_dump"
    /\ Len(tmp[t]) < Len(Serialize(tdata[t]))
    /\ tmp' = [tmp EXCEPT ![t] = SubSeq(Serialize(tdata[t]), 1, Len(tmp[t]) + 1)]
    /\ UNCHANGED <<lockOwner, lockDepth, tpc, top, tdata, target, lastRead, crashes>>
    /\ UNCHANGED NotStore

\* lines 52 and 50: tmp.flush() and the end of the with block close the file
WriteClose(t) ==
    /\ tpc[t] = "w_dump"
    /\ tmp[t] = Serialize(tdata[t])
    /\ tpc' = [tpc EXCEPT ![t] = "w_closed"]
    /\ UNCHANGED <<lockOwner, lockDepth, top, tdata, target, tmp, lastRead, crashes>>
    /\ UNCHANGED NotStore

\* line 53: Path(tmp.name).replace(path), then _write_json leaves its lock level
WriteReplace(t) ==
    /\ tpc[t] = "w_closed"
    /\ target' = tmp[t]
    /\ tmp' = [tmp EXCEPT ![t] = NoFile]
    /\ Release(t)
    /\ tpc' = [tpc EXCEPT ![t] = IF top[t] = "update" THEN "u_written" ELSE "done"]
    /\ UNCHANGED <<top, tdata, lastRead, crashes>>
    /\ UNCHANGED NotStore

(***************************************************************************)
(* The environment of the store                                            *)
(***************************************************************************)
\* The process dies at an arbitrary point and is started again
\* (app.py:48-50: a new DataStore, initialize()).  Files stay as they are:
\* a temporary file (delete=False, storage.py:50) is left behind under its
\* name until the thread slot creates its next one.
Crash ==
    /\ crashes < MaxCrashes
    /\ crashes' = crashes + 1
    /\ tpc' = [t \in Threads |-> "idle"]
    /\ top' = [t \in Threads |-> "none"]
    /\ tdata' = [t \in Threads |-> DefaultDoc]
    /\ lockOwner' = NoThread
    /\ lockDepth' = 0
    /\ UNCHANGED <<target, tmp, lastRead>>
    /\ UNCHANGED NotStore

\* A reader that does not go through the lock (run.py:8-15 reads
\* settings.json directly) opens the collection file and parses it.
ExternalRead ==
    /\ lastRead' = Parse(target)
    /\ UNCHANGED <<lockOwner, lockDepth, tpc, top, tdata, target, tmp, crashes>>
    /\ UNCHANGED NotStore

(***************************************************************************)
(* auth.py: text helpers.  Usernames are sequences of characters.          *)
(***************************************************************************)
\* str.lower() on one character of the alphabet the model uses
LowerChar(c) ==
    CASE c = "A" -> "a"
      [] c = "B" -> "b"
      [] c = "D" -> "d"
      [] c = "E" -> "e"
      [] c = "I" -> "i"
      [] c = "L" -> "l"
      [] c = "M" -> "m"
      [] c = "N" -> "n"
      [] c = "O" -> "o"
      [] c = "S" -> "s"
      [] c = "T" -> "t"
      [] c = "Z" -> "z"
      [] OTHER -> c

\* str.lower()
Lower(str) == [i \in 1..Len(str) |-> LowerChar(str[i])]

RECURSIVE LStrip(_)
LStrip(str) == IF str # <<>> /\ str[1] = " " THEN LStrip(Tail(str)) ELSE str

RECURSIVE RStrip(_)
RStrip(str) ==
    IF str # <<>> /\ str[Len(str)] = " "
    THEN RStrip(SubSeq(str, 1, Len(str) - 1))
    ELSE str

\* str.strip()
Strip(str) == RStrip(LStrip(str))

(***************************************************************************)
(* auth.py:14-38 constants and password hashing                            *)
(***************************************************************************)
SESSION_TTL_HOURS == 12
PBKDF2_ITERATIONS == 390000
DEFAULT_ADMIN_USERNAME == <<"A", "d", "m", "i", "n">>
\* os.getenv(DEFAULT_ADMIN_PASSWORD_ENV), auth.py:49-52
BootstrapPassword == "secret1"
MIN_PASSWORD_LEN == 6

NoToken == 0
NoAdmin == 0
NoTime == -1
\* the values secrets.token_bytes(16) can return, auth.py:26
Salts == {"saltA"}

\* An encoded password is a text: a sequence of pieces, each a run of
\* characters without "$", a "$", or the hex digest of a hash.
Text(s) == <<"text", s>>
Dollar == Text("$")
\* hashlib.pbkdf2_hmac(...).hex(): the digest is determined by password,
\* salt and iteration count, and differs when one of them differs
DigestHex(password, salt, iterations) == <<"digest", <<password, salt, iterations>>>>

\* the pieces of a run of characters
Run(s) == IF s = "" THEN <<>> ELSE <<Text(s)>>

\* str(iterations) in the f-string of auth.py:22
DecimalText(n) ==
    CASE n = 390000 -> "390000"
      [] n = 1 -> "1"
      [] n = 0 -> "0"
      [] n = -5 -> "-5"

\* int(iterations), auth.py:35: <<>> when it raises ValueError
IntOf(s) ==
    CASE s \in {"390000", "0390000", " 390000"} -> <<390000>>
      [] s = "1" -> <<1>>
      [] s = "0" -> <<0>>
      [] s = "-5" -> <<-5>>
      [] OTHER -> <<>>

\* salt.hex(), auth.py:22
Hex(salt) ==
    CASE salt = "saltA" -> "aa"
      [] salt = "saltB" -> "bb"
      [] salt = "" -> ""

\* bytes.fromhex(salt_hex), auth.py:35: <<>> when it raises ValueError
FromHex(s) ==
    CASE s \in {"aa", "AA"} -> <<"saltA">>
      [] s = "bb" -> <<"saltB">>
      [] s = "" -> <<"">>
      [] OTHER -> <<>>

\* auth.py:20-22 _hash_pbkdf2: the text algorithm$iterations$salt$digest
HashPbkdf2(password, salt, iterations) ==
    <<Text("pbkdf2_sha256"), Dollar>> \o Run(DecimalText(iterations)) \o <<Dollar>>
        \o Run(Hex(salt)) \o <<Dollar, DigestHex(password, salt, iterations)>>

\* encoded.split("$", 3), auth.py:32: the fields, the last one with
\* whatever follows the third "$"
SplitEncoded(encoded) ==
    LET dollars == {i \in 1..Len(encoded) : encoded[i] = Dollar}
        first(S) == CHOOSE i \in S : \A j \in S : i <= j
        d1 == first(dollars)
        d2 == first(dollars \ {d1})
        d3 == first(dollars \ {d1, d2})
    IN  IF dollars = {} THEN <<encoded>>
        ELSE IF dollars = {d1}
        THEN <<SubSeq(encoded, 1, d1 - 1), SubSeq(encoded, d1 + 1, Len(encoded))>>
        ELSE IF dollars = {d1, d2}
        THEN <<SubSeq(encoded, 1, d1 - 1), SubSeq(encoded, d1 + 1, d2 - 1),
               SubSeq(encoded, d2 + 1, Len(encoded))>>
        ELSE <<SubSeq(encoded, 1, d1 - 1), SubSeq(encoded, d1 + 1, d2 - 1),
               SubSeq(encoded, d2 + 1, d3 - 1), SubSeq(encoded, d3 + 1, Len(encoded))>>

\* the characters of a field that is empty or one run of characters; <<>>
\* for a field that holds a digest
FieldText(field) ==
    IF field = <<>> THEN <<"">>
    ELSE IF Len(field) = 1 /\ field[1][1] = "text" THEN <<field[1][2]>>
    ELSE <<>>

\* A verify_password that does not look at the algorithm tag and compares
\* the digests only
VerifyPasswordAnyAlgorithm(password, encoded) ==
    LET fields == SplitEncoded(encoded)
        iterations == IF FieldText(fields[2]) = <<>> THEN <<>> ELSE IntOf(FieldText(fields[2])[1])
        salt == IF FieldText(fields[3]) = <<>> THEN <<>> ELSE FromHex(FieldText(fields[3])[1])
    IN  /\ Len(fields) = 4
        /\ iterations # <<>> /\ salt # <<>>
        /\ iterations[1] >= 1
        /\ <<DigestHex(password, salt[1], iterations[1])>> = fields[4]

\* auth.py:30-38 verify_password: every exception (the unpacking of fewer
\* than four fields, int(), bytes.fromhex(), pbkdf2_hmac with less than one
\* iteration) is caught and gives False
VerifyPassword(password, encoded) ==
    LET fields == SplitEncoded(encoded)
        iterations == IF FieldText(fields[2]) = <<>> THEN <<>> ELSE IntOf(FieldText(fields[2])[1])
        salt == IF FieldText(fields[3]) = <<>> THEN <<>> ELSE FromHex(FieldText(fields[3])[1])
    IN  /\ Len(fields) = 4
        /\ fields[1] = <<Text("pbkdf2_sha256")>>
        /\ iterations # <<>> /\ salt # <<>>
        /\ iterations[1] >= 1
        /\ HashPbkdf2(password, salt[1], iterations[1]) = encoded

\* A variant of _find_admin_by_username that compares without lower().
FindAdminByUsernameCaseSensitive(list, username) ==
    LET wanted == Strip(username)
        hits == {i \in 1..Len(list) : list[i].username = wanted}
    IN IF hits = {} THEN 0 ELSE CHOOSE i \in hits : \A j \in hits : i <= j

\* auth.py:41-46 _find_admin_by_username: index of the first match, 0 if none
FindAdminByUsername(list, username) ==
    LET wanted == Lower(Strip(username))
        hits == {i \in 1..Len(list) : Lower(list[i].username) = wanted}
    IN IF hits = {} THEN 0 ELSE CHOOSE i \in hits : \A j \in hits : i <= j

\* next(a for a in admins if a.get("id") == admin_id), index or 0
FindAdminById(list, id) ==
    LET hits == {i \in 1..Len(list) : list[i].id = id}
    IN IF hits = {} THEN 0 ELSE CHOOSE i \in hits : \A j \in hits : i <= j

\* auth.py:66-75 / settings.py:145-152: a new admin record
NewAdmin(id, username, password, salt) ==
    [id |-> id,
     username |-> username,
     password_hash |-> HashPbkdf2(password, salt, PBKDF2_ITERATIONS),
     is_active |-> TRUE,
     last_login_at |-> NoTime]

(***************************************************************************)
(* auth.py:93-127 sessions                                                 *)
(***************************************************************************)
\* A variant of create_session with a lifetime one hour short.
NewSessionShortTtl(token, admin, now) ==
    [id |-> token,
     admin_id |-> admin.id,
     username |-> admin.username,
     created_at |-> now,
     expires_at |-> now + SESSION_TTL_HOURS - 1]

\* auth.py:98-106 the record create_session appends
NewSession(token, admin, now) ==
    [id |-> token,
     admin_id |-> admin.id,
     username |-> admin.username,
     created_at |-> now,
     expires_at |-> now + SESSION_TTL_HOURS]

\* A variant of delete_session that drops every session of the same admin.
DeleteSessionOfSameAdmin(list, session_id) ==
    LET owners == {list[i].admin_id : i \in {j \in 1..Len(list) : list[j].id = session_id}}
        Keep(session) == session.admin_id \notin owners
    IN SelectSeq(list, Keep)

\* auth.py:111-116 delete_session: the list it writes back
DeleteSession(list, session_id) ==
    LET Keep(session) == session.id # session_id
    IN SelectSeq(list, Keep)

\* auth.py:119-127 cleanup_expired_sessions: the list it writes back
CleanupExpiredSessions(list, now) ==
    LET Keep(session) == session.expires_at > now
    IN SelectSeq(list, Keep)

\* next(s for s in sessions if s.get("id") == token), index or 0
FindSession(list, token) ==
    LET hits == {i \in 1..Len(list) : list[i].id = token}
    IN IF hits = {} THEN 0 ELSE CHOOSE i \in hits : \A j \in hits : i <= j

(***************************************************************************)
(* Requests and responses                                                  *)
(***************************************************************************)
Slots == 1..MaxInflight
NoResp == [op |-> "none", status |-> 0, detail |-> "", token |-> NoToken, files |-> {}]
Response(op, status, detail) ==
    [op |-> op, status |-> status, detail |-> detail, token |-> NoToken, files |-> {}]
\* auth.py:136,141,145,151 HTTPException(401) of the request with cookie token
AuthReject(token, detail) ==
    [op |-> "auth", status |-> 401, detail |-> detail, token |-> token, files |-> {}]

\* An admin request: the position of its dependency get_current_admin_from_request
\* (run by a worker thread), its cookie, the admin id it found, the
\* sessions payload a store call of it holds in memory, and the instant its
\* sweep took as now (auth.py:120).
IdleReq ==
    [pc |-> "idle", token |-> NoToken, caller |-> NoAdmin, snap |-> <<>>, now |-> 0]
\* The handler the event loop is running: none, admin_login between
\* read_sessions and write_sessions, or admin_logout likewise.
IdleLoop == [pc |-> "idle", token |-> NoToken, snap |-> <<>>]

\* the usernames and passwords clients send
UsernameInputs ==
    {DEFAULT_ADMIN_USERNAME,
     <<" ", "a", "d", "m", "I", "N", " ">>,
     <<"B", "o", "b">>,
     <<" ">>}
PasswordInputs == {"secret1", "secret2", "short"}

\* Optional values of a request body: <<>> is None, <<v>> is v.
\* the passwords admins choose for accounts
NewPasswords == {"secret1", "short"}
OptPasswords == {<<>>} \cup {<<p>> : p \in NewPasswords}
OptFlags == {<<>>, <<TRUE>>, <<FALSE>>}

\* auth.py:59-76 ensure_default_admin: the admins collection it leaves
EnsureDefaultAdmin(list, id, salt) ==
    IF FindAdminByUsername(list, DEFAULT_ADMIN_USERNAME) # 0 THEN list
    ELSE Append(list, NewAdmin(id, DEFAULT_ADMIN_USERNAME, BootstrapPassword, salt))

\* app.py:47-55 startup_event: initialize() and ensure_default_admin
\* (auth.py:59-76) on an empty data directory
AuthInit ==
    /\ \E salt \in Salts : admins = EnsureDefaultAdmin(<<>>, 1, salt)
    /\ sessions = <<>>
    /\ clock = 0
    /\ reqs = [r \in Slots |-> IdleReq]
    /\ ev = IdleLoop
    /\ resp = NoResp
    /\ nextAdminId = 2
    /\ nextToken = 1
    /\ revoked = {}

(***************************************************************************)
(* app.py:73-106 login and logout.  Both handlers are coroutines without   *)
(* an await inside: the event loop runs one of them at a time, while the   *)
(* worker threads go on between its store calls.                           *)
(***************************************************************************)
\* auth.py:79-90 authenticate_admin: does the call return an admin?
AuthenticateOk(list, username, password) ==
    LET i == FindAdminByUsername(list, username)
    IN /\ i # 0
       /\ list[i].is_active
       /\ VerifyPassword(password, list[i].password_hash)

\* app.py:73-78 admin_login up to create_session's read_sessions and append
\* (auth.py:79-106): authenticate_admin reads and writes admins, which only
\* the event loop writes
AdminLogin(username, password) ==
    /\ resp = NoResp
    /\ ev.pc = "idle"
    /\ nextToken <= MaxTokens
    /\ LET i == FindAdminByUsername(admins, username)
       IN IF AuthenticateOk(admins, username, password)
          THEN /\ admins' = [admins EXCEPT ![i].last_login_at = clock]
               /\ ev' = [pc |-> "login", token |-> nextToken,
                         snap |-> Append(sessions, NewSession(nextToken, admins[i], clock))]
               /\ nextToken' = nextToken + 1
               /\ UNCHANGED resp
          ELSE /\ resp' = Response("login", 401, "Invalid credentials")
               /\ UNCHANGED <<admins, ev, nextToken>>
    /\ UNCHANGED <<sessions, clock, reqs, nextAdminId, revoked>>
    /\ UNCHANGED NotAuth

\* auth.py:107-108 create_session's write_sessions, app.py:80-96 the response
CreateSessionWrite ==
    /\ resp = NoResp
    /\ ev.pc = "login"
    /\ sessions' = ev.snap
    /\ ev' = IdleLoop
    /\ resp' = [Response("login", 200, "") EXCEPT !.token = ev.token]
    /\ UNCHANGED <<admins, clock, reqs, nextAdminId, nextToken, revoked>>
    /\ UNCHANGED NotAuth

\* app.py:99-103 admin_logout up to delete_session's read_sessions and
\* filter (auth.py:112-115)
AdminLogout(token) ==
    /\ resp = NoResp
    /\ ev.pc = "idle"
    /\ IF token # NoToken
       THEN /\ ev' = [pc |-> "logout", token |-> token,
                      snap |-> DeleteSession(sessions, token)]
            /\ UNCHANGED resp
       ELSE /\ resp' = Response("logout", 200, "")
            /\ UNCHANGED ev
    /\ UNCHANGED <<admins, sessions, clock, reqs, nextAdminId, nextToken, revoked>>
    /\ UNCHANGED NotAuth

\* auth.py:116 delete_session's write_sessions, app.py:104-106 the response
LogoutDeleteWrite ==
    /\ resp = NoResp
    /\ ev.pc = "logout"
    /\ sessions' = ev.snap
    /\ ev' = IdleLoop
    /\ resp' = [Response("logout", 200, "") EXCEPT !.token = ev.token]
    /\ UNCHANGED <<admins, clock, reqs, nextAdminId, nextToken, revoked>>
    /\ UNCHANGED NotAuth

(***************************************************************************)
(* auth.py:130-152 get_current_admin_from_request, the dependency          *)
(* require_admin of every admin endpoint.  It is a plain function: a       *)
(* worker thread runs it, one store call after the other, before the       *)
(* endpoint's body starts on the event loop.                               *)
(***************************************************************************)
\* auth.py:120-126 cleanup_expired_sessions: now, read_sessions, filter
CleanupRead(r, token) ==
    /\ resp = NoResp
    /\ reqs[r].pc = "idle"
    /\ reqs' = [reqs EXCEPT ![r] =
                  [pc |-> "sweep_read", token |-> token, caller |-> NoAdmin,
                   snap |-> CleanupExpiredSessions(sessions, clock),
                   now |-> clock]]
    /\ UNCHANGED <<admins, sessions, clock, ev, resp, nextAdminId, nextToken, revoked>>
    /\ UNCHANGED NotAuth

\* auth.py:127 cleanup_expired_sessions' write_sessions, then lines 134-136
CleanupWrite(r) ==
    /\ resp = NoResp
    /\ reqs[r].pc = "sweep_read"
    /\ sessions' = reqs[r].snap
    /\ IF reqs[r].token = NoToken
       THEN /\ resp' = AuthReject(NoToken, "Admin login required")
            /\ reqs' = [reqs EXCEPT ![r] = IdleReq]
       ELSE /\ reqs' = [reqs EXCEPT ![r].pc = "swept", ![r].snap = <<>>]
            /\ UNCHANGED resp
    /\ UNCHANGED <<admins, clock, ev, nextAdminId, nextToken, revoked>>
    /\ UNCHANGED NotAuth

\* auth.py:138-143 read_sessions, the lookup of the token and the expiry test
ValidateSession(r) ==
    /\ resp = NoResp
    /\ reqs[r].pc = "swept"
    /\ LET si == FindSession(sessions, reqs[r].token)
       IN IF si = 0
          THEN /\ resp' = AuthReject(reqs[r].token, "Session expired")
               /\ reqs' = [reqs EXCEPT ![r] = IdleReq]
          ELSE IF sessions[si].expires_at <= clock
          THEN /\ reqs' = [reqs EXCEPT ![r].pc = "expired"]
               /\ UNCHANGED resp
          ELSE /\ reqs' = [reqs EXCEPT ![r].pc = "found",
                                       ![r].caller = sessions[si].admin_id]
               /\ UNCHANGED resp
    /\ UNCHANGED <<admins, sessions, clock, ev, nextAdminId, nextToken, revoked>>
    /\ UNCHANGED NotAuth

\* A variant of lines 147-149 that does not look at is_active.
ValidateAdminAnyState(r) ==
    /\ resp = NoResp
    /\ reqs[r].pc = "found"
    /\ reqs' = IF FindAdminById(admins, reqs[r].caller) = 0
                THEN [reqs EXCEPT ![r].pc = "unavailable"]
                ELSE [reqs EXCEPT ![r].pc = "validated", ![r].now = 0]
    /\ UNCHANGED <<admins, sessions, clock, ev, resp, nextAdminId, nextToken, revoked>>
    /\ UNCHANGED NotAuth

\* auth.py:147-149,152 read_admins and the test of the session's admin
ValidateAdmin(r) ==
    /\ resp = NoResp
    /\ reqs[r].pc = "found"
    /\ LET ai == FindAdminById(admins, reqs[r].caller)
       IN reqs' = IF ai = 0 \/ ~admins[ai].is_active
                  THEN [reqs EXCEPT ![r].pc = "unavailable"]
                  ELSE [reqs EXCEPT ![r].pc = "validated", ![r].now = 0]
    /\ UNCHANGED <<admins, sessions, clock, ev, resp, nextAdminId, nextToken, revoked>>
    /\ UNCHANGED NotAuth

\* auth.py:144,150 delete_session(store, token): read_sessions and filter
DeleteSessionRead(r) ==
    /\ resp = NoResp
    /\ reqs[r].pc \in {"expired", "unavailable"}
    /\ reqs' = [reqs EXCEPT
                  ![r].pc = IF @ = "expired" THEN "expired_del" ELSE "unavailable_del",
                  ![r].snap = DeleteSession(sessions, reqs[r].token)]
    /\ UNCHANGED <<admins, sessions, clock, ev, resp, nextAdminId, nextToken, revoked>>
    /\ UNCHANGED NotAuth

\* auth.py:116 write_sessions of that delete_session, then lines 145 / 151
DeleteSessionWrite(r) ==
    /\ resp = NoResp
    /\ reqs[r].pc \in {"expired_del", "unavailable_del"}
    /\ sessions' = reqs[r].snap
    /\ resp' = AuthReject(reqs[r].token,
                          IF reqs[r].pc = "expired_del"
                          THEN "Session expired" ELSE "Admin unavailable")
    /\ reqs' = [reqs EXCEPT ![r] = IdleReq]
    /\ UNCHANGED <<admins, clock, ev, nextAdminId, nextToken, revoked>>
    /\ UNCHANGED NotAuth

(***************************************************************************)
(* settings.py:118-210 the bodies of the admin user endpoints              *)
(***************************************************************************)
\* the tokens of the sessions of admin id in the collection
TokensOf(id) == {sessions[i].id : i \in {j \in 1..Len(sessions) : sessions[j].admin_id = id}}

\* settings.py:118-123 list_admin_users (a read-only body)
ListAdminUsers(r) ==
    /\ resp = NoResp
    /\ ev.pc = "idle"
    /\ reqs[r].pc = "validated"
    /\ resp' = Response("get", 200, "")
    /\ reqs' = [reqs EXCEPT ![r] = IdleReq]
    /\ UNCHANGED <<admins, sessions, clock, ev, nextAdminId, nextToken, revoked>>
    /\ UNCHANGED NotAuth

\* A creation that refuses only a username equal letter for letter
CreateAdminUserExactMatch(r, body_username, password) ==
    /\ resp = NoResp
    /\ ev.pc = "idle"
    /\ reqs[r].pc = "validated"
    /\ nextAdminId <= MaxAdmins
    /\ LET username == Strip(body_username)
       IN IF username = <<>>
          THEN /\ resp' = Response("create_admin", 400, "username is required")
               /\ UNCHANGED <<admins, nextAdminId>>
          ELSE IF Len(password) < MIN_PASSWORD_LEN
          THEN /\ resp' = Response("create_admin", 400, "password too short")
               /\ UNCHANGED <<admins, nextAdminId>>
          ELSE IF \E i \in 1..Len(admins) : admins[i].username = username
          THEN /\ resp' = Response("create_admin", 409, "Admin username already exists")
               /\ UNCHANGED <<admins, nextAdminId>>
          ELSE /\ \E salt \in Salts :
                     admins' = Append(admins, NewAdmin(nextAdminId, username, password, salt))
               /\ nextAdminId' = nextAdminId + 1
               /\ resp' = Response("create_admin", 200, "")
    /\ reqs' = [reqs EXCEPT ![r] = IdleReq]
    /\ UNCHANGED <<sessions, clock, ev, nextToken, revoked>>
    /\ UNCHANGED NotAuth

\* settings.py:126-155 create_admin_user
CreateAdminUser(r, body_username, password) ==
    /\ resp = NoResp
    /\ ev.pc = "idle"
    /\ reqs[r].pc = "validated"
    /\ nextAdminId <= MaxAdmins
    /\ LET username == Strip(body_username)
       IN IF username = <<>>
          THEN /\ resp' = Response("create_admin", 400, "username is required")
               /\ UNCHANGED <<admins, nextAdminId>>
          ELSE IF Len(password) < MIN_PASSWORD_LEN
          THEN /\ resp' = Response("create_admin", 400, "password too short")
               /\ UNCHANGED <<admins, nextAdminId>>
          ELSE IF \E i \in 1..Len(admins) : Lower(admins[i].username) = Lower(username)
          THEN /\ resp' = Response("create_admin", 409, "Admin username already exists")
               /\ UNCHANGED <<admins, nextAdminId>>
          ELSE /\ \E salt \in Salts :
                     admins' = Append(admins, NewAdmin(nextAdminId, username, password, salt))
               /\ nextAdminId' = nextAdminId + 1
               /\ resp' = Response("create_admin", 200, "")
    /\ reqs' = [reqs EXCEPT ![r] = IdleReq]
    /\ UNCHANGED <<sessions, clock, ev, nextToken, revoked>>
    /\ UNCHANGED NotAuth

\* settings.py:158-183 update_admin_user
UpdateAdminUser(r, admin_id, password, is_active) ==
    /\ resp = NoResp
    /\ ev.pc = "idle"
    /\ reqs[r].pc = "validated"
    /\ LET i == FindAdminById(admins, admin_id)
       IN IF i = 0
          THEN /\ resp' = Response("update_admin", 404, "Admin not found")
               /\ UNCHANGED <<admins, revoked>>
          ELSE IF password # <<>> /\ Len(password[1]) < MIN_PASSWORD_LEN
          THEN /\ resp' = Response("update_admin", 400, "password too short")
               /\ UNCHANGED <<admins, revoked>>
          ELSE IF is_active = <<FALSE>> /\ admins[i].id = reqs[r].caller
          THEN /\ resp' = Response("update_admin", 400, "You cannot deactivate your own account")
               /\ UNCHANGED <<admins, revoked>>
          ELSE /\ \E salt \in Salts :
                     admins' = [admins EXCEPT
                        ![i].password_hash =
                            IF password # <<>>
                            THEN HashPbkdf2(password[1], salt, PBKDF2_ITERATIONS)
                            ELSE @,
                        ![i].is_active = IF is_active # <<>> THEN is_active[1] ELSE @]
               /\ revoked' = IF is_active = <<FALSE>>
                             THEN revoked \cup TokensOf(admins[i].id)
                             ELSE revoked
               /\ resp' = Response("update_admin", 200, "")
    /\ reqs' = [reqs EXCEPT ![r] = IdleReq]
    /\ UNCHANGED <<sessions, clock, ev, nextAdminId, nextToken>>
    /\ UNCHANGED NotAuth

\* the admins list without the record of id (settings.py:203)
WithoutAdmin(list, id) ==
    LET Keep(item) == item.id # id
    IN SelectSeq(list, Keep)

HasActive(list) == \E i \in 1..Len(list) : list[i].is_active

\* A variant of delete_admin_user without the check of lines 196-197.
DeleteAdminUserNoSelfCheck(r, admin_id) ==
    /\ resp = NoResp
    /\ ev.pc = "idle"
    /\ reqs[r].pc = "validated"
    /\ LET remaining == WithoutAdmin(admins, admin_id)
       IN IF FindAdminById(admins, admin_id) = 0
          THEN /\ resp' = Response("delete_admin", 404, "Admin not found")
               /\ UNCHANGED <<admins, revoked>>
          ELSE IF ~HasActive(remaining)
          THEN /\ resp' = Response("delete_admin", 400, "At least one active admin must remain")
               /\ UNCHANGED <<admins, revoked>>
          ELSE /\ admins' = remaining
               /\ revoked' = revoked \cup TokensOf(admin_id)
               /\ resp' = Response("delete_admin", 200, "")
    /\ reqs' = [reqs EXCEPT ![r] = IdleReq]
    /\ UNCHANGED <<sessions, clock, ev, nextAdminId, nextToken>>
    /\ UNCHANGED NotAuth

\* settings.py:186-210 delete_admin_user
DeleteAdminUser(r, admin_id) ==
    /\ resp = NoResp
    /\ ev.pc = "idle"
    /\ reqs[r].pc = "validated"
    /\ LET remaining == WithoutAdmin(admins, admin_id)
       IN IF reqs[r].caller = admin_id
          THEN /\ resp' = Response("delete_admin", 400, "You cannot delete your own account")
               /\ UNCHANGED <<admins, revoked>>
          ELSE IF FindAdminById(admins, admin_id) = 0
          THEN /\ resp' = Response("delete_admin", 404, "Admin not found")
               /\ UNCHANGED <<admins, revoked>>
          ELSE IF ~HasActive(remaining)
          THEN /\ resp' = Response("delete_admin", 400, "At least one active admin must remain")
               /\ UNCHANGED <<admins, revoked>>
          ELSE /\ admins' = remaining
               /\ revoked' = revoked \cup TokensOf(admin_id)
               /\ resp' = Response("delete_admin", 200, "")
    /\ reqs' = [reqs EXCEPT ![r] = IdleReq]
    /\ UNCHANGED <<sessions, clock, ev, nextAdminId, nextToken>>
    /\ UNCHANGED NotAuth

\* the client takes the response
Deliver ==
    /\ resp # NoResp
    /\ resp' = NoResp
    /\ UNCHANGED <<admins, sessions, clock, reqs, ev, nextAdminId, nextToken, revoked>>
    /\ UNCHANGED NotAuth

\* app.py:47-55 startup_event of a server started again on the data
\* directory it left, with no request in flight: ensure_default_admin
\* (auth.py:59-76) adds the default admin when no admin has its name
StartupEvent ==
    /\ resp = NoResp
    /\ ev.pc = "idle"
    /\ \A r \in Slots : reqs[r].pc = "idle"
    /\ FindAdminByUsername(admins, DEFAULT_ADMIN_USERNAME) # 0 \/ nextAdminId <= MaxAdmins + 1
    /\ \E salt \in Salts : admins' = EnsureDefaultAdmin(admins, nextAdminId, salt)
    /\ nextAdminId' = IF FindAdminByUsername(admins, DEFAULT_ADMIN_USERNAME) # 0
                      THEN nextAdminId ELSE nextAdminId + 1
    /\ UNCHANGED <<sessions, clock, reqs, ev, resp, nextToken, revoked>>
    /\ UNCHANGED NotAuth

\* Time passes, a session lifetime at a time.
NextInstant(now) == now + SESSION_TTL_HOURS

Tick ==
    /\ resp = NoResp
    /\ NextInstant(clock) <= MaxClock
    /\ clock' = NextInstant(clock)
    /\ UNCHANGED <<admins, sessions, reqs, ev, resp, nextAdminId, nextToken, revoked>>
    /\ UNCHANGED NotAuth

(***************************************************************************)
(* uploads.py: uploaders, the upload pipeline and admin delete.            *)
(* Handlers are coroutines on the event loop: a handler runs alone from    *)
(* one await to the next.  Only create_upload_batch awaits (the chunk      *)
(* reads and the close of each UploadFile), so other requests run between  *)
(* its chunks.                                                             *)
(***************************************************************************)
Uploads == 1..MaxUploads
FileIndexes == 1..MaxFiles

\* upload_file.read(1024 * 1024): the largest chunk, in bytes
Mebibyte == 1048576

\* a path of the files directory that does not exist
Absent == -1

\* storage.py:28 DEFAULT_UPLOADS
DEFAULT_UPLOADS == [batches |-> <<>>, files |-> <<>>]

\* storage.py:17-23 DEFAULT_SETTINGS after an admin has set max_file_size_mb
\* and retention_days to 1 (settings.py:83-91 accepts every value >= 1)
Settings ==
    [retention_days |-> 1,
     max_file_size_mb |-> 1,
     allowed_extensions |-> {<<".", "s", "t", "l">>, <<".", "j", "s", "o", "n">>},
     upload_access_mode |-> "open_lan",
     upload_shared_password |-> ""]

\* uuid4().hex in _safe_storage_name and secrets.token_hex for the file id:
\* fresh names, here the request and the position of the file in it
StoredName(u, k) == <<u, k>>
FileId(u, k) == <<u, k>>
\* batch 0 is the batch found in the data directory at startup, if any
Existing == 0
BlobNames == {StoredName(u, k) : u \in Uploads \cup {Existing}, k \in FileIndexes}
FileIds == {FileId(u, k) : u \in Uploads, k \in FileIndexes}

\* uploads.py:63-64 _normalize_name
NormalizeName(name) == Lower(Strip(name))

\* A grade check that lets 13 through
ParseGradeUpTo13(value) ==
    IF value = <<>> THEN <<>>
    ELSE IF 7 <= value[1] /\ value[1] <= 13 THEN value
    ELSE <<>>

\* uploads.py:67-76 _parse_grade (None is <<>>)
ParseGrade(value) ==
    IF value = <<>> THEN <<>>
    ELSE IF 7 <= value[1] /\ value[1] <= 12 THEN value
    ELSE <<>>

\* uploads.py:92 the first uploader with that normalized name, or 0
FindUploader(list, normalized) ==
    LET hits == {i \in 1..Len(list) : list[i].normalized_name = normalized}
    IN  IF hits = {} THEN 0 ELSE CHOOSE i \in hits : \A j \in hits : i <= j

\* A resolution that does not look at is_active_for_upload
ResolveOrCreateUploaderDisabledToo(list, display_name, grade) ==
    LET normalized == NormalizeName(display_name)
        at == FindUploader(list, normalized)
        filled == IF at # 0 /\ list[at].grade = <<>> /\ grade # <<>>
                  THEN [list EXCEPT ![at].grade = grade,
                                    ![at].is_active_for_upload = TRUE]
                  ELSE list
        parsed_grade == ParseGrade(grade)
        uploader == [id |-> Len(list) + 1,
                     display_name |-> Strip(display_name),
                     normalized_name |-> normalized,
                     grade |-> parsed_grade,
                     is_active_for_upload |-> TRUE]
    IN  IF normalized = <<>>
        THEN [status |-> 400, uploaders |-> list, id |-> 0, display_name |-> <<>>]
        ELSE IF at # 0
        THEN IF filled[at].grade = <<>>
             THEN [status |-> 400, uploaders |-> filled, id |-> 0, display_name |-> <<>>]
             ELSE [status |-> 0, uploaders |-> filled, id |-> filled[at].id,
                   display_name |-> filled[at].display_name]
        ELSE IF parsed_grade = <<>>
        THEN [status |-> 400, uploaders |-> list, id |-> 0, display_name |-> <<>>]
        ELSE [status |-> 0, uploaders |-> Append(list, uploader), id |-> uploader.id,
              display_name |-> uploader.display_name]

\* A resolution that returns the record found whether it has a grade or not
ResolveOrCreateUploaderAnyGrade(list, display_name, grade) ==
    LET normalized == NormalizeName(display_name)
        at == FindUploader(list, normalized)
        parsed_grade == ParseGrade(grade)
        uploader == [id |-> Len(list) + 1,
                     display_name |-> Strip(display_name),
                     normalized_name |-> normalized,
                     grade |-> parsed_grade,
                     is_active_for_upload |-> TRUE]
    IN  IF normalized = <<>>
        THEN [status |-> 400, uploaders |-> list, id |-> 0, display_name |-> <<>>]
        ELSE IF at # 0
        THEN [status |-> 0, uploaders |-> list, id |-> list[at].id,
              display_name |-> list[at].display_name]
        ELSE IF parsed_grade = <<>>
        THEN [status |-> 400, uploaders |-> list, id |-> 0, display_name |-> <<>>]
        ELSE [status |-> 0, uploaders |-> Append(list, uploader), id |-> uploader.id,
              display_name |-> uploader.display_name]

\* uploads.py:79-122 _resolve_or_create_uploader: the status of the call
\* (0 when it returns), the uploaders collection it leaves and the id of
\* the uploader it returns
ResolveOrCreateUploader(list, display_name, grade) ==
    LET normalized == NormalizeName(display_name)
        at == FindUploader(list, normalized)
        filled == IF at # 0 /\ list[at].grade = <<>> /\ grade # <<>>
                  THEN [list EXCEPT ![at].grade = grade,
                                    ![at].is_active_for_upload = TRUE]
                  ELSE list
        parsed_grade == ParseGrade(grade)
        uploader == [id |-> Len(list) + 1,
                     display_name |-> Strip(display_name),
                     normalized_name |-> normalized,
                     grade |-> parsed_grade,
                     is_active_for_upload |-> TRUE]
    IN  IF normalized = <<>>
        THEN [status |-> 400, uploaders |-> list, id |-> 0, display_name |-> <<>>]
        ELSE IF at # 0
        THEN IF ~filled[at].is_active_for_upload \/ filled[at].grade = <<>>
             THEN [status |-> 400, uploaders |-> filled, id |-> 0, display_name |-> <<>>]
             ELSE [status |-> 0, uploaders |-> filled, id |-> filled[at].id,
                   display_name |-> filled[at].display_name]
        ELSE IF parsed_grade = <<>>
        THEN [status |-> 400, uploaders |-> list, id |-> 0, display_name |-> <<>>]
        ELSE [status |-> 0, uploaders |-> Append(list, uploader), id |-> uploader.id,
              display_name |-> uploader.display_name]

\* An access check that compares the passwords without asking whether one
\* is configured
ValidateUploadAccessUnconfigured(settings, upload_password) ==
    IF settings.upload_access_mode = "open_lan" THEN 0
    ELSE IF settings.upload_access_mode = "shared_password"
    THEN IF upload_password # <<settings.upload_shared_password>> THEN 401
         ELSE 0
    ELSE 403

\* uploads.py:125-136 _validate_upload_access: 0 when access is granted,
\* else the status of the HTTPException
ValidateUploadAccess(settings, upload_password) ==
    IF settings.upload_access_mode = "open_lan" THEN 0
    ELSE IF settings.upload_access_mode = "shared_password"
    THEN IF settings.upload_shared_password = "" THEN 503
         ELSE IF upload_password # <<settings.upload_shared_password>> THEN 401
         ELSE 0
    ELSE 403

\* uploads.py:139-144 _allowed_extension; a filename is its stem and its
\* suffix (Path(filename).suffix)
AllowedExtension(filename, settings) ==
    LET allowed == {Strip(Lower(ext)) : ext \in {e \in settings.allowed_extensions : Strip(e) # <<>>}}
    IN  allowed = {} \/ Lower(filename.suffix) \in allowed

\* A validation that looks at the first row only
RowsValidFirstRow(descriptions, versions, files, settings) ==
    /\ Strip(descriptions[1]) # <<>>
    /\ Strip(versions[1]) # <<>>
    /\ AllowedExtension(files[1], settings)

\* uploads.py:259-271 the rows of a batch all pass validation
RowsValid(descriptions, versions, files, settings) ==
    \A index \in 1..Len(files) :
        /\ Strip(descriptions[index]) # <<>>
        /\ Strip(versions[index]) # <<>>
        /\ AllowedExtension(files[index], settings)

\* uploads.py:240 max_bytes
MaxBytes(settings) == settings.max_file_size_mb * 1024 * 1024

\* uploads.py:285 Path(filename).name of a filename without directories
Name(filename) == filename.stem \o filename.suffix

\* uploads.py:258-271 validated_rows: the stripped description and the
\* filename of each row
ValidatedRows(descriptions, files) ==
    [index \in 1..Len(files) |->
        [description |-> Strip(descriptions[index]), filename |-> files[index]]]

\* uploads.py:282-294 file_entry
FileEntry(u, k, row, size_bytes, now) ==
    [id |-> FileId(u, k),
     upload_batch_id |-> u,
     original_filename |-> Name(row.filename),
     stored_filename |-> StoredName(u, k),
     description |-> row.description,
     size_bytes |-> size_bytes,
     created_at |-> now,
     is_deleted |-> FALSE,
     deleted_at |-> NoTime]

\* uploads.py:249-256 batch, with the file ids appended at line 296
Batch(u, uploader_id, display_name, file_ids, now) ==
    [id |-> u,
     uploader_profile_id |-> uploader_id,
     uploader_display_name_snapshot |-> display_name,
     created_at |-> now,
     file_ids |-> file_ids]

\* an upload request that has not arrived
NoUpload ==
    [pc |-> "idle", n |-> 0, k |-> 0, size |-> 0, pending |-> "none",
     payload |-> DEFAULT_UPLOADS, rows |-> <<>>, file_ids |-> <<>>, saved |-> <<>>,
     uploader |-> 0, snapshot |-> <<>>, now |-> NoTime, writes |-> 0, status |-> 0, cause |-> "none"]

\* the request has returned: its locals are gone, its outcome is kept
Returned(r, pc, status, cause) ==
    [NoUpload EXCEPT !.pc = pc, !.n = r.n, !.k = r.k, !.writes = r.writes,
                     !.status = status, !.cause = cause]

\* the status an exception of the streaming becomes
StatusOf(cause) == IF cause = "too_large" THEN 400 ELSE 500

\* the text fields and the file names a client sends
TextInputs == {<<" ">>, <<"v", "1">>}
FilenameInputs ==
    {[stem |-> <<"p", "a", "r", "t">>, suffix |-> <<".", "S", "T", "L">>],
     [stem |-> <<"p", "a", "r", "t">>, suffix |-> <<".", "e", "x", "e">>]}
UploaderInputs ==
    {[name |-> <<"Z", "o", "e">>, grade |-> <<9>>],
     [name |-> <<" ", "z", "O", "E">>, grade |-> <<>>],
     [name |-> <<" ">>, grade |-> <<9>>],
     [name |-> <<"B", "o", "b">>, grade |-> <<13>>]}
ListsOf(S) == UNION {[1..n -> S] : n \in 0..MaxFiles}

\* a well-formed row
GoodText == <<"v", "1">>
GoodFile == [stem |-> <<"p", "a", "r", "t">>, suffix |-> <<".", "S", "T", "L">>]
AllGood(list, good) == \A i \in 1..Len(list) : list[i] = good

\* the forms a client sends (descriptions, versions, files): the well-formed
\* batches of every length, and the batches of at most one file with one
\* thing wrong (no file, a list of another length, a blank text, a
\* forbidden extension)
BatchInputs ==
    {b \in ListsOf(TextInputs) \X ListsOf(TextInputs) \X ListsOf(FilenameInputs) :
        LET n == Len(b[3])
            bad1 == ~(Len(b[1]) = n /\ AllGood(b[1], GoodText))
            bad2 == ~(Len(b[2]) = n /\ AllGood(b[2], GoodText))
            bad3 == ~AllGood(b[3], GoodFile)
        IN  \/ ~bad1 /\ ~bad2 /\ ~bad3
            \/ /\ n <= 1 /\ Len(b[1]) <= 1 /\ Len(b[2]) <= 1
               /\ (bad1 /\ ~bad2 /\ ~bad3) \/ (~bad1 /\ bad2 /\ ~bad3) \/ (~bad1 /\ ~bad2 /\ bad3)}
ChunkLens == {0, Mebibyte}

\* app.py:47-65 the server takes requests between startup and shutdown:
\* the daemon task created by startup_event has its first turn on the event
\* loop before the first request is served, and shutdown_event runs once
\* the requests in flight have finished
Serving == daemon.pc # "created" /\ ~shutdown

UploadInit ==
    /\ uploaders = <<>>
    /\ uploads = DEFAULT_UPLOADS
    /\ blobs = [b \in BlobNames |-> Absent]
    /\ up = [u \in Uploads |-> NoUpload]

\* uploads.py:55-56 the except clause of _save_upload_file
Unlink(files, name) == [files EXCEPT ![name] = Absent]

\* A rollback that leaves the saved files of the batch in place
RollbackNothing(files, saved_paths) == files

\* uploads.py:297-301 the except clause of create_upload_batch
Rollback(files, saved_paths) ==
    [b \in BlobNames |->
        IF \E i \in 1..Len(saved_paths) : saved_paths[i] = b THEN Absent ELSE files[b]]

\* uploads.py:276-278, 43-47: the next file of the batch is opened for
\* writing (the blob exists, empty) and the first read is awaited; when the
\* open raises, nothing exists and the close of the UploadFile is awaited
BeginFile(r, k, open_ok) ==
    IF open_ok
    THEN [r EXCEPT !.pc = "reading", !.k = k, !.size = 0, !.pending = "none"]
    ELSE [r EXCEPT !.pc = "closing", !.k = k, !.size = 0, !.pending = "io"]

\* uploads.py:221-278 create_upload_batch up to its first await, when
\* read_settings (line 237) returns settings and the form carries
\* upload_password (<<>> when it carries none)
CreateUploadBatchUnder(u, settings, upload_password, who, descriptions, versions, files, open_ok) ==
    /\ Serving
    /\ up[u].pc = "idle"
    /\ LET access == ValidateUploadAccess(settings, upload_password)
           resolved == ResolveOrCreateUploader(uploaders, who.name, who.grade)
           r == [NoUpload EXCEPT !.n = Len(files), !.payload = uploads,
                                 !.uploader = resolved.id,
                                 !.snapshot = resolved.display_name, !.now = clock]
       IN  IF Len(files) = 0 \/ Len(descriptions) # Len(files) \/ Len(versions) # Len(files)
           THEN /\ up' = [up EXCEPT ![u] = Returned(r, "failed", 400, "rejected")]
                /\ UNCHANGED <<uploaders, blobs>>
           ELSE IF access # 0
           THEN /\ up' = [up EXCEPT ![u] = Returned(r, "failed", access, "rejected")]
                /\ UNCHANGED <<uploaders, blobs>>
           ELSE /\ uploaders' = resolved.uploaders
                /\ IF resolved.status # 0
                   THEN /\ up' = [up EXCEPT ![u] = Returned(r, "failed", resolved.status, "rejected")]
                        /\ UNCHANGED blobs
                   ELSE IF ~RowsValid(descriptions, versions, files, settings)
                   THEN /\ up' = [up EXCEPT ![u] = Returned(r, "failed", 400, "rejected")]
                        /\ UNCHANGED blobs
                   ELSE /\ up' = [up EXCEPT ![u] =
                                    BeginFile([r EXCEPT !.rows = ValidatedRows(descriptions, files)],
                                              1, open_ok)]
                        /\ blobs' = IF open_ok
                                    THEN [blobs EXCEPT ![StoredName(u, 1)] = 0]
                                    ELSE blobs
    /\ UNCHANGED uploads
    /\ UNCHANGED NotUpload

\* uploads.py:221-278 create_upload_batch of a client without password
\* when the settings are Settings
CreateUploadBatch(u, who, descriptions, versions, files, open_ok) ==
    CreateUploadBatchUnder(u, Settings, <<>>, who, descriptions, versions, files, open_ok)

\* A chunk loop that refuses a file when the count reaches the cap
ReadChunkRejectsAtCap(u, len, write_ok) ==
    /\ up[u].pc = "reading"
    /\ LET r == up[u]
           size == r.size + len
           name == StoredName(u, r.k)
       IN  IF len = 0
           THEN IF write_ok
                THEN /\ up' = [up EXCEPT ![u].pc = "closing"]
                     /\ UNCHANGED blobs
                ELSE /\ up' = [up EXCEPT ![u].pc = "closing", ![u].pending = "io"]
                     /\ blobs' = Unlink(blobs, name)
           ELSE IF size >= MaxBytes(Settings)
           THEN /\ up' = [up EXCEPT ![u].pc = "closing", ![u].pending = "too_large"]
                /\ blobs' = Unlink(blobs, name)
           ELSE IF ~write_ok
           THEN /\ up' = [up EXCEPT ![u].pc = "closing", ![u].pending = "io"]
                /\ blobs' = Unlink(blobs, name)
           ELSE /\ up' = [up EXCEPT ![u].size = size]
                /\ blobs' = [blobs EXCEPT ![name] = size]
    /\ UNCHANGED <<uploaders, uploads>>
    /\ UNCHANGED NotUpload

\* uploads.py:47-53 one turn of the chunk loop: the read returns a chunk of
\* length len; write_ok tells whether the write (or, at the end of the
\* file, the flush that closes the blob) succeeds
ReadChunk(u, len, write_ok) ==
    /\ up[u].pc = "reading"
    /\ LET r == up[u]
           size == r.size + len
           name == StoredName(u, r.k)
       IN  IF len = 0
           THEN IF write_ok
                THEN /\ up' = [up EXCEPT ![u].pc = "closing"]
                     /\ UNCHANGED blobs
                ELSE /\ up' = [up EXCEPT ![u].pc = "closing", ![u].pending = "io"]
                     /\ blobs' = Unlink(blobs, name)
           ELSE IF size > MaxBytes(Settings)
           THEN /\ up' = [up EXCEPT ![u].pc = "closing", ![u].pending = "too_large"]
                /\ blobs' = Unlink(blobs, name)
           ELSE IF ~write_ok
           THEN /\ up' = [up EXCEPT ![u].pc = "closing", ![u].pending = "io"]
                /\ blobs' = Unlink(blobs, name)
           ELSE /\ up' = [up EXCEPT ![u].size = size]
                /\ blobs' = [blobs EXCEPT ![name] = size]
    /\ UNCHANGED <<uploaders, uploads>>
    /\ UNCHANGED NotUpload

\* uploads.py:47, 54-57 the read raises
ReadError(u) ==
    /\ up[u].pc = "reading"
    /\ up' = [up EXCEPT ![u].pc = "closing", ![u].pending = "io"]
    /\ blobs' = Unlink(blobs, StoredName(u, up[u].k))
    /\ UNCHANGED <<uploaders, uploads>>
    /\ UNCHANGED NotUpload

\* uploads.py:47, 59 the task of the request is cancelled (the client has
\* gone) while it awaits upload_file.read or upload_file.close:
\* CancelledError is not an Exception, so neither the handler of lines
\* 54-57 nor the one of lines 298-302 runs; the with block closes the
\* destination, the finally closes the upload, the request ends
Cancel(u) ==
    /\ up[u].pc \in {"reading", "closing"}
    /\ up' = [up EXCEPT ![u] = Returned(up[u], "cancelled", 0, "cancelled")]
    /\ UNCHANGED <<uploaders, uploads, blobs>>
    /\ UNCHANGED NotUpload

\* A loop over the rows that ends after every row
LastRowAlways(n, k) == TRUE

\* uploads.py:275 the loop over validated_rows ends after the last row
LastRow(n, k) == k = n

\* uploads.py:58-60, 279-306 the close of the UploadFile returns (or
\* raises): _save_upload_file returns or raises, and create_upload_batch
\* goes on to its next await or to its end
CloseUpload(u, close_ok, open_ok, commit_ok) ==
    /\ up[u].pc = "closing"
    /\ LET r == up[u]
           entry == FileEntry(u, r.k, r.rows[r.k], r.size, r.now)
           payload == [r.payload EXCEPT !.files = Append(@, entry)]
           file_ids == Append(r.file_ids, entry.id)
           saved_paths == Append(r.saved, StoredName(u, r.k))
           next == [r EXCEPT !.payload = payload, !.file_ids = file_ids,
                             !.saved = saved_paths]
       IN  IF r.pending # "none"
           THEN /\ blobs' = Rollback(blobs, r.saved)
                /\ up' = [up EXCEPT ![u] = Returned(r, "failed", StatusOf(r.pending), r.pending)]
                /\ UNCHANGED uploads
           ELSE IF ~close_ok
           THEN /\ blobs' = Rollback(blobs, r.saved)
                /\ up' = [up EXCEPT ![u] = Returned(r, "failed", 500, "close")]
                /\ UNCHANGED uploads
           ELSE IF ~LastRow(r.n, r.k)
           THEN /\ up' = [up EXCEPT ![u] = BeginFile(next, r.k + 1, open_ok)]
                /\ blobs' = IF open_ok
                            THEN [blobs EXCEPT ![StoredName(u, r.k + 1)] = 0]
                            ELSE blobs
                /\ UNCHANGED uploads
           ELSE IF commit_ok
           THEN /\ uploads' = [payload EXCEPT
                                  !.batches = Append(@, Batch(u, r.uploader, r.snapshot, file_ids, r.now))]
                /\ up' = [up EXCEPT ![u] =
                             Returned([r EXCEPT !.writes = @ + 1], "done", 200, "none")]
                /\ UNCHANGED blobs
           ELSE /\ up' = [up EXCEPT ![u] = Returned(r, "failed", 500, "store")]
                /\ UNCHANGED <<uploads, blobs>>
    /\ UNCHANGED uploaders
    /\ UNCHANGED NotUpload

\* uploads.py:376-385 the blobs admin_delete_many tries to unlink
StoredOf(file_ids) ==
    {uploads.files[i].stored_filename :
        i \in {j \in 1..Len(uploads.files) :
                  uploads.files[j].id \in file_ids /\ ~uploads.files[j].is_deleted}}

\* A deletion that sets the flag and leaves deleted_at as it is
AdminDeleteManyFlagOnly(file_ids, stuck) ==
    /\ Serving
    /\ file_ids # {}
    /\ LET files == uploads.files
           hit == {i \in 1..Len(files) : files[i].id \in file_ids /\ ~files[i].is_deleted}
       IN  /\ blobs' = [b \in BlobNames |->
                           IF b \notin stuck /\ \E i \in hit : files[i].stored_filename = b
                           THEN Absent
                           ELSE blobs[b]]
           /\ uploads' = IF hit = {}
                         THEN uploads
                         ELSE [uploads EXCEPT !.files =
                                  [i \in 1..Len(files) |->
                                      IF i \in hit
                                      THEN [files[i] EXCEPT !.is_deleted = TRUE]
                                      ELSE files[i]]]
    /\ UNCHANGED <<uploaders, up>>
    /\ UNCHANGED NotUpload

\* uploads.py:360-398 admin_delete_many, once require_admin has accepted the
\* caller; stuck are the blobs whose unlink raises OSError
AdminDeleteMany(file_ids, stuck) ==
    /\ Serving
    /\ file_ids # {}
    /\ LET files == uploads.files
           hit == {i \in 1..Len(files) : files[i].id \in file_ids /\ ~files[i].is_deleted}
       IN  /\ blobs' = [b \in BlobNames |->
                           IF b \notin stuck /\ \E i \in hit : files[i].stored_filename = b
                           THEN Absent
                           ELSE blobs[b]]
           /\ uploads' = IF hit = {}
                         THEN uploads
                         ELSE [uploads EXCEPT !.files =
                                  [i \in 1..Len(files) |->
                                      IF i \in hit
                                      THEN [files[i] EXCEPT !.is_deleted = TRUE,
                                                            !.deleted_at = clock]
                                      ELSE files[i]]]
    /\ UNCHANGED <<uploaders, up>>
    /\ UNCHANGED NotUpload

\* sorted(list, key=created_at) and list.sort(key=created_at, reverse=True):
\* stable in both directions
RECURSIVE SortedByCreatedAt(_, _)
SortedByCreatedAt(list, reverse) ==
    IF list = <<>>
    THEN <<>>
    ELSE LET head == Head(list)
             rest == SortedByCreatedAt(Tail(list), reverse)
             n == Cardinality({i \in 1..Len(rest) :
                                  IF reverse
                                  THEN rest[i].created_at > head.created_at
                                  ELSE rest[i].created_at < head.created_at})
         IN  SubSeq(rest, 1, n) \o <<head>> \o SubSeq(rest, n + 1, Len(rest))

\* uploads.py:166-182 rendered_files of one batch
RenderedFiles(payload, files_dir, batch) ==
    LET batch_files == SelectSeq(payload.files, LAMBDA f : f.upload_batch_id = batch.id)
        batch_files_sorted == SortedByCreatedAt(batch_files, FALSE)
        kept == SelectSeq(batch_files_sorted, LAMBDA f : ~f.is_deleted)
    IN  [i \in 1..Len(kept) |->
            [id |-> kept[i].id,
             original_filename |-> kept[i].original_filename,
             description |-> kept[i].description,
             created_at |-> kept[i].created_at,
             size_bytes |-> kept[i].size_bytes,
             is_deleted |-> FALSE,
             has_blob |-> files_dir[kept[i].stored_filename] # Absent]]

\* uploads.py:153-197 _build_admin_upload_view
BuildAdminUploadView(payload, files_dir) ==
    LET shown == SelectSeq(payload.batches,
                           LAMBDA b : RenderedFiles(payload, files_dir, b) # <<>>)
        output == [i \in 1..Len(shown) |->
                      [id |-> shown[i].id,
                       uploader_name |-> shown[i].uploader_display_name_snapshot,
                       created_at |-> shown[i].created_at,
                       files |-> RenderedFiles(payload, files_dir, shown[i])]]
    IN  SortedByCreatedAt(output, TRUE)

\* the files a listing shows, each with the filename it is shown under
ShownFiles(view) ==
    {[file_id |-> view[p[1]].files[p[2]].id,
      filename |-> view[p[1]].files[p[2]].original_filename] :
        p \in {q \in (1..Len(view)) \X (1..MaxFiles) : q[2] <= Len(view[q[1]].files)}}

\* uploads.py:309-312 admin_uploads, once require_admin has accepted the caller
AdminUploads ==
    /\ Serving
    /\ resp = NoResp
    /\ resp' = [Response("admin_uploads", 200, "") EXCEPT
                   !.files = ShownFiles(BuildAdminUploadView(uploads, blobs))]
    /\ UNCHANGED <<admins, sessions, clock, reqs, ev, nextAdminId, nextToken, revoked>>
    /\ UNCHANGED NotAuth

\* uploads.py:318-326 the answer of admin_download_file
DownloadResponse(payload, files_dir, file_id) ==
    LET hits == {i \in 1..Len(payload.files) : payload.files[i].id = file_id}
        first == CHOOSE i \in hits : \A j \in hits : i <= j
    IN  IF hits = {} \/ payload.files[first].is_deleted
        THEN Response("download", 404, "File not found")
        ELSE IF files_dir[payload.files[first].stored_filename] = Absent
        THEN Response("download", 404, "File is no longer available")
        ELSE [Response("download", 200, "") EXCEPT
                 !.files = {[file_id |-> file_id,
                             filename |-> IF payload.files[first].original_filename # <<>>
                                          THEN payload.files[first].original_filename
                                          ELSE <<"d", "o", "w", "n", "l", "o", "a", "d">>]}]

\* uploads.py:315-326 admin_download_file, once require_admin has accepted
\* the caller
AdminDownloadFile(file_id) ==
    /\ Serving
    /\ resp = NoResp
    /\ resp' = DownloadResponse(uploads, blobs, file_id)
    /\ UNCHANGED <<admins, sessions, clock, reqs, ev, nextAdminId, nextToken, revoked>>
    /\ UNCHANGED NotAuth

\* uploads.py:334-356 downloads of admin_download_many
Downloads(payload, files_dir, wanted) ==
    {[file_id |-> payload.files[i].id, filename |-> payload.files[i].original_filename] :
        i \in {j \in 1..Len(payload.files) :
                  /\ payload.files[j].id \in wanted
                  /\ ~payload.files[j].is_deleted
                  /\ files_dir[payload.files[j].stored_filename] # Absent}}

\* uploads.py:328-358 admin_download_many, once require_admin has accepted
\* the caller
AdminDownloadMany(file_ids) ==
    /\ Serving
    /\ resp = NoResp
    /\ resp' = [Response("download_many", 200, "") EXCEPT
                   !.files = Downloads(uploads, blobs, file_ids)]
    /\ UNCHANGED <<admins, sessions, clock, reqs, ev, nextAdminId, nextToken, revoked>>
    /\ UNCHANGED NotAuth


(***************************************************************************)
(* cleanup.py: the retention pass and the daemon that runs it.  The pass   *)
(* is a coroutine without an await inside: it runs alone on the event      *)
(* loop, between the awaits of the upload requests.                        *)
(***************************************************************************)
HOURS_PER_DAY == 24

\* cleanup.py:49 timeout=24 * 60 * 60, in hours
DAEMON_PERIOD_HOURS == 24

\* the steps of time the model takes, in hours
ClockStep == DAEMON_PERIOD_HOURS

\* a created_at that is text but not an ISO timestamp
BadTime == -2

\* storage.py:36-45 parse_iso: <<>> is None (timestamps are hours)
ParseIso(value) == IF value \in Nat THEN <<value>> ELSE <<>>

\* A test that forgets that deleted records are skipped
ExpiredAlsoDeleted(file_entry, cutoff) ==
    /\ ParseIso(file_entry.created_at) # <<>>
    /\ ~(ParseIso(file_entry.created_at)[1] > cutoff)

\* cleanup.py:21-25 the pass handles this file record
Expired(file_entry, cutoff) ==
    /\ ~file_entry.is_deleted
    /\ ParseIso(file_entry.created_at) # <<>>
    /\ ~(ParseIso(file_entry.created_at)[1] > cutoff)

\* A pass that compares with now and forgets the retention period
RetentionPassNoPeriod(doc, files_dir, settings, now, stuck) ==
    LET files == doc.files
        hit == {i \in 1..Len(files) : Expired(files[i], now)}
    IN  [uploads |-> IF hit = {} THEN doc
                     ELSE [doc EXCEPT !.files =
                              [i \in 1..Len(files) |->
                                  IF i \in hit
                                  THEN [files[i] EXCEPT !.is_deleted = TRUE, !.deleted_at = now]
                                  ELSE files[i]]],
         blobs |-> [b \in DOMAIN files_dir |->
                      IF b \notin stuck /\ \E i \in hit : files[i].stored_filename = b
                      THEN Absent ELSE files_dir[b]],
         wrote |-> hit # {}]

\* cleanup.py:10-42 run_retention_cleanup_once on a copy of the uploads
\* collection and of the files directory: what it leaves, and whether it
\* wrote the collection; stuck are the blobs whose unlink raises OSError
RetentionPass(doc, files_dir, settings, now, stuck) ==
    LET retention_days == settings.retention_days
        cutoff == now - retention_days * HOURS_PER_DAY
        files == doc.files
        hit == IF retention_days <= 0 THEN {}
               ELSE {i \in 1..Len(files) : Expired(files[i], cutoff)}
    IN  [uploads |-> IF hit = {} THEN doc
                     ELSE [doc EXCEPT !.files =
                              [i \in 1..Len(files) |->
                                  IF i \in hit
                                  THEN [files[i] EXCEPT !.is_deleted = TRUE, !.deleted_at = now]
                                  ELSE files[i]]],
         blobs |-> [b \in DOMAIN files_dir |->
                      IF b \notin stuck /\ \E i \in hit : files[i].stored_filename = b
                      THEN Absent ELSE files_dir[b]],
         wrote |-> hit # {}]

\* the blobs a pass at this moment tries to unlink
PassTargets ==
    {uploads.files[i].stored_filename :
        i \in {j \in 1..Len(uploads.files) :
                  Expired(uploads.files[j], clock - Settings.retention_days * HOURS_PER_DAY)}}

\* app.py:53-55 the task is created, the event is clear
DaemonInit ==
    /\ daemon = [pc |-> "created", since |-> NoTime, passes |-> 0, timeouts |-> 0]
    /\ shutdown = FALSE

\* A loop that does not test the signal before it waits again
LoopTestWithoutSignal(d, now) == [d EXCEPT !.pc = "waiting", !.since = now]

\* cleanup.py:47 the test of the while loop, then the wait (line 49) or the
\* return
LoopTest(d, now) ==
    IF shutdown THEN [d EXCEPT !.pc = "returned"]
    ELSE [d EXCEPT !.pc = "waiting", !.since = now]

\* cleanup.py:46-49 the task runs for the first time: one pass, then the
\* loop test, when read_settings (line 11) returns settings
DaemonStartUnder(settings, stuck) ==
    /\ daemon.pc = "created"
    /\ LET pass == RetentionPass(uploads, blobs, settings, clock, stuck)
       IN  /\ uploads' = pass.uploads
           /\ blobs' = pass.blobs
    /\ daemon' = LoopTest([daemon EXCEPT !.passes = @ + 1], clock)
    /\ UNCHANGED <<uploaders, up, shutdown>>
    /\ UNCHANGED <<storeVars, authVars>>

\* cleanup.py:46-49 the first pass when the settings are Settings
DaemonStart(stuck) == DaemonStartUnder(Settings, stuck)

\* cleanup.py:49-51 the wait times out after 24 hours: one pass, then the
\* loop test.  When the signal is set at the moment the timer fires, the
\* wait may end either way.  read_settings (line 11) returns settings.
DaemonTimeoutUnder(settings, stuck) ==
    /\ daemon.pc = "waiting"
    /\ clock >= daemon.since + DAEMON_PERIOD_HOURS
    /\ LET pass == RetentionPass(uploads, blobs, settings, clock, stuck)
       IN  /\ uploads' = pass.uploads
           /\ blobs' = pass.blobs
    /\ daemon' = LoopTest([daemon EXCEPT !.passes = @ + 1, !.timeouts = @ + 1], clock)
    /\ UNCHANGED <<uploaders, up, shutdown>>
    /\ UNCHANGED <<storeVars, authVars>>

\* cleanup.py:49-51 the pass after a timeout when the settings are Settings
DaemonTimeout(stuck) == DaemonTimeoutUnder(Settings, stuck)

\* A wait that the signal does not end before the period is over
DaemonWakeAfterPeriod ==
    /\ daemon.pc = "waiting"
    /\ shutdown
    /\ clock >= daemon.since + DAEMON_PERIOD_HOURS
    /\ daemon' = [daemon EXCEPT !.pc = "returned"]
    /\ UNCHANGED <<uploaders, uploads, blobs, up, shutdown>>
    /\ UNCHANGED <<storeVars, authVars>>

\* cleanup.py:47-49 the signal ends the wait: the loop test fails and the
\* task returns
DaemonWake ==
    /\ daemon.pc = "waiting"
    /\ shutdown
    /\ daemon' = [daemon EXCEPT !.pc = "returned"]
    /\ UNCHANGED <<uploaders, uploads, blobs, up, shutdown>>
    /\ UNCHANGED <<storeVars, authVars>>

\* app.py:58-65 shutdown_event sets the signal and awaits the task
Shutdown ==
    /\ ~shutdown
    /\ \A u \in Uploads : up[u].pc \notin {"reading", "closing"}
    /\ shutdown' = TRUE
    /\ UNCHANGED <<uploaders, uploads, blobs, up, daemon>>
    /\ UNCHANGED <<storeVars, authVars>>

\* time passes for the upload pipeline and the daemon
TimePasses ==
    /\ daemon.pc # "created"
    /\ clock + ClockStep <= MaxUploadClock
    /\ clock' = clock + ClockStep
    /\ UNCHANGED <<admins, sessions, reqs, ev, resp, nextAdminId, nextToken, revoked>>
    /\ UNCHANGED <<storeVars, uploadVars, daemonVars>>

(***************************************************************************)
(* The uploader directory: uploads.py:209-218 create_uploader,             *)
(* settings.py:221-281 admin_update_uploader and admin_disable_uploader,   *)
(* migrate_legacy.py:38-169 import_legacy.  The handlers are coroutines    *)
(* without an await inside, so each is one step.  The three admin          *)
(* handlers are modelled from the point where require_admin has admitted   *)
(* the request.                                                            *)
(***************************************************************************)
\* the names and grades clients send (<<>> is a missing grade)
NameInputs ==
    {<<"Z", "o", "e">>, <<" ", "z", "O", "E">>, <<"B", "o", "b">>, <<" ">>}
GradeInputs == {<<>>, <<6>>, <<7>>, <<12>>, <<13>>}
DirectoryInputs == [name : NameInputs, grade : GradeInputs]
\* the fields of an admin edit (<<>> is a field left out)
OptNames == {<<>>, << <<" ">> >>, << <<" ", "z", "o", "e", " ">> >>}
OptGrades == {<<>>, <<6>>, <<7>>, <<13>>}

\* the status of the response of a handler that returned or raised
HttpStatus(status) == IF status = 0 THEN 200 ELSE status

\* what a directory handler leaves unchanged besides uploaders and resp
DirectoryFrame ==
    /\ UNCHANGED <<admins, sessions, clock, reqs, ev, nextAdminId, nextToken, revoked>>
    /\ UNCHANGED <<uploads, blobs, up>>
    /\ UNCHANGED <<storeVars, daemonVars>>

\* uploads.py:209-218 create_uploader; its body has grade: int, a request
\* without a grade does not reach the handler
CreateUploader(display_name, grade) ==
    /\ Serving
    /\ resp = NoResp
    /\ grade # <<>>
    /\ LET resolved == ResolveOrCreateUploader(uploaders, display_name, grade)
       IN  /\ uploaders' = resolved.uploaders
           /\ resp' = Response("create_uploader", HttpStatus(resolved.status), "")
    /\ DirectoryFrame

\* settings.py:231,274 the first uploader with that id, or 0
FindUploaderById(list, uploader_id) ==
    LET hits == {i \in 1..Len(list) : list[i].id = uploader_id}
    IN  IF hits = {} THEN 0 ELSE CHOOSE i \in hits : \A j \in hits : i <= j

\* An edit that renames without looking for the name among the others
UpdateUploaderUnchecked(list, uploader_id, display_name, grade, is_active_for_upload) ==
    LET at == FindUploaderById(list, uploader_id)
        name == IF display_name = <<>> THEN <<>> ELSE Strip(display_name[1])
        renamed == IF display_name = <<>> THEN list
                   ELSE [list EXCEPT ![at].display_name = name,
                                     ![at].normalized_name = Lower(name)]
    IN  IF at = 0 THEN [status |-> 404, uploaders |-> list]
        ELSE [status |-> 0, uploaders |-> renamed]

\* settings.py:229-261 the body of admin_update_uploader: the status of the
\* call (0 when it returns) and the uploaders collection it leaves
UpdateUploader(list, uploader_id, display_name, grade, is_active_for_upload) ==
    LET at == FindUploaderById(list, uploader_id)
        name == IF display_name = <<>> THEN <<>> ELSE Strip(display_name[1])
        normalized == Lower(name)
        duplicate == \E j \in 1..Len(list) :
                        /\ list[j].normalized_name = normalized
                        /\ list[j].id # uploader_id
        renamed == IF display_name = <<>> THEN list
                   ELSE [list EXCEPT ![at].display_name = name,
                                     ![at].normalized_name = normalized]
        graded == IF grade = <<>> THEN renamed
                  ELSE [renamed EXCEPT ![at].grade = grade]
        flagged == IF is_active_for_upload = <<>> THEN graded
                   ELSE [graded EXCEPT ![at].is_active_for_upload = is_active_for_upload[1]]
        status == IF at = 0 THEN 404
                  ELSE IF display_name # <<>> /\ name = <<>> THEN 400
                  ELSE IF display_name # <<>> /\ duplicate THEN 409
                  ELSE IF grade # <<>> /\ (grade[1] < 7 \/ grade[1] > 12) THEN 400
                  ELSE 0
    IN  [status |-> status, uploaders |-> IF status = 0 THEN flagged ELSE list]

\* An edit that also puts the new name into the batches of the uploader
AdminUpdateUploaderRewritesBatches(uploader_id, display_name, grade, is_active_for_upload) ==
    /\ Serving
    /\ resp = NoResp
    /\ LET updated == UpdateUploader(uploaders, uploader_id, display_name, grade,
                                     is_active_for_upload)
           at == FindUploaderById(updated.uploaders, uploader_id)
       IN  /\ uploaders' = updated.uploaders
           /\ uploads' = [uploads EXCEPT !.batches =
                  [j \in 1..Len(uploads.batches) |->
                      IF at # 0 /\ uploads.batches[j].uploader_profile_id = uploader_id
                      THEN [uploads.batches[j] EXCEPT !.uploader_display_name_snapshot =
                               updated.uploaders[at].display_name]
                      ELSE uploads.batches[j]]]
           /\ resp' = Response("update_uploader", HttpStatus(updated.status), "")
    /\ UNCHANGED <<admins, sessions, clock, reqs, ev, nextAdminId, nextToken, revoked>>
    /\ UNCHANGED <<blobs, up>>
    /\ UNCHANGED <<storeVars, daemonVars>>

\* settings.py:221-262 admin_update_uploader
AdminUpdateUploader(uploader_id, display_name, grade, is_active_for_upload) ==
    /\ Serving
    /\ resp = NoResp
    /\ LET updated == UpdateUploader(uploaders, uploader_id, display_name, grade,
                                     is_active_for_upload)
       IN  /\ uploaders' = updated.uploaders
           /\ resp' = Response("update_uploader", HttpStatus(updated.status), "")
    /\ DirectoryFrame

\* settings.py:265-281 admin_disable_uploader
AdminDisableUploader(uploader_id) ==
    /\ Serving
    /\ resp = NoResp
    /\ LET at == FindUploaderById(uploaders, uploader_id)
       IN  IF at = 0
           THEN /\ resp' = Response("disable_uploader", 404, "")
                /\ UNCHANGED uploaders
           ELSE /\ uploaders' = [uploaders EXCEPT ![at].is_active_for_upload = FALSE]
                /\ resp' = Response("disable_uploader", 200, "")
    /\ DirectoryFrame

\* the non-admin users of a legacy users.json, in the order of their
\* lowercased names (migrate_legacy.py:89): the name, the grades of the
\* grade groups among the user's groups (migrate_legacy.py:17,94) and
\* created_at
LegacyUsers ==
    << [name |-> <<" ", "z", "o", "e">>, grades |-> {7}, created_at |-> 0],
       [name |-> <<"B", "o", "b">>, grades |-> {}, created_at |-> 0],
       [name |-> <<"Z", "O", "E">>, grades |-> {7, 12}, created_at |-> 0],
       [name |-> <<"z", "o", "e">>, grades |-> {12}, created_at |-> 24] >>

\* migrate_legacy.py:55-76 of the chosen users with one lowercased name the
\* one created last is kept
Merged(chosen) ==
    {i \in chosen :
        \A j \in chosen :
            Lower(LegacyUsers[j].name) = Lower(LegacyUsers[i].name)
                => LegacyUsers[j].created_at <= LegacyUsers[i].created_at}

\* migrate_legacy.py:83,111 the dict by normalized_name holds the last
\* uploader of each name, or 0
FindLastUploader(list, normalized) ==
    LET hits == {i \in 1..Len(list) : list[i].normalized_name = normalized}
    IN  IF hits = {} THEN 0 ELSE CHOOSE i \in hits : \A j \in hits : j <= i

\* migrate_legacy.py:89-138 one turn of the import loop
ImportOne(list, user) ==
    LET grade == IF Cardinality(user.grades) > 1 THEN <<>>
                 ELSE <<CHOOSE g \in user.grades : TRUE>>
        active == Cardinality(user.grades) = 1
        normalized == Lower(user.name)
        at == FindLastUploader(list, normalized)
        uploader == [id |-> Len(list) + 1,
                     display_name |-> user.name,
                     normalized_name |-> normalized,
                     grade |-> grade,
                     is_active_for_upload |-> active]
    IN  IF user.grades = {} THEN list
        ELSE IF at # 0
        THEN [list EXCEPT ![at].display_name = user.name,
                          ![at].grade = IF grade # <<>> THEN grade ELSE @,
                          ![at].is_active_for_upload = IF grade = <<>> THEN active ELSE TRUE]
        ELSE Append(list, uploader)

\* the import loop over the merged users from index i on
RECURSIVE ImportFrom(_, _, _)
ImportFrom(list, merged, i) ==
    IF i > Len(LegacyUsers) THEN list
    ELSE ImportFrom(IF i \in merged THEN ImportOne(list, LegacyUsers[i]) ELSE list,
                    merged, i + 1)

\* migrate_legacy.py:38-169 import_legacy of a users.json with the chosen
\* users
ImportLegacy(chosen) ==
    /\ Serving
    /\ resp = NoResp
    /\ uploaders' = ImportFrom(uploaders, Merged(chosen), 1)
    /\ resp' = Response("import_legacy", 200, "")
    /\ DirectoryFrame

UploadNext ==
    \/ \E u \in Uploads, who \in UploaderInputs, b \in BatchInputs, open_ok \in BOOLEAN :
          CreateUploadBatch(u, who, b[1], b[2], b[3], open_ok)
    \/ \E u \in Uploads, len \in ChunkLens, write_ok \in BOOLEAN : ReadChunk(u, len, write_ok)
    \/ \E u \in Uploads : ReadError(u)
    \/ \E u \in Uploads, close_ok \in BOOLEAN, open_ok \in BOOLEAN, commit_ok \in BOOLEAN :
          CloseUpload(u, close_ok, open_ok, commit_ok)
    \/ \E file_ids \in SUBSET FileIds : \E stuck \in SUBSET StoredOf(file_ids) :
          AdminDeleteMany(file_ids, stuck)
    \/ \E stuck \in SUBSET PassTargets : DaemonStart(stuck)
    \/ \E stuck \in SUBSET PassTargets : DaemonTimeout(stuck)
    \/ DaemonWake
    \/ Shutdown
    \/ TimePasses

\* the file records an uploads.json found at startup may hold at position k
\* (DataStore.initialize keeps an existing file): any timestamp, readable
\* or not, deleted or not
ExistingEntries(k) ==
    {[FileEntry(Existing, k, ValidatedRows(<<GoodText>>, <<GoodFile>>)[1], Mebibyte, created_at) EXCEPT
         !.is_deleted = del, !.deleted_at = IF del THEN 0 ELSE NoTime] :
        created_at \in {BadTime, NoTime, 0, ClockStep}, del \in BOOLEAN}

\* storage.py:71-84 initialize on a data directory that holds an uploads
\* collection of one batch and files whose blobs are present or missing
ExistingUploadsInit ==
    /\ uploaders = <<>>
    /\ up = [u \in Uploads |-> NoUpload]
    /\ \E n \in 0..MaxFiles :
          \E entries \in [1..n -> UNION {ExistingEntries(k) : k \in FileIndexes}] :
             /\ \A k \in 1..n : entries[k] \in ExistingEntries(k)
             /\ uploads = [batches |-> <<Batch(Existing, 1, <<"Z", "o", "e">>,
                                              [k \in 1..n |-> FileId(Existing, k)], 0)>>,
                           files |-> entries]
    /\ \E present \in SUBSET {StoredName(Existing, k) : k \in FileIndexes} :
          blobs = [b \in BlobNames |-> IF b \in present THEN Mebibyte ELSE Absent]

\* the server after startup on an existing data directory
RetentionInit == StoreInit /\ AuthInit /\ ExistingUploadsInit /\ DaemonInit

RetentionNext ==
    \/ \E stuck \in SUBSET PassTargets : DaemonStart(stuck)
    \/ \E stuck \in SUBSET PassTargets : DaemonTimeout(stuck)
    \/ DaemonWake
    \/ Shutdown
    \/ TimePasses

\* the server after startup
Init == StoreInit /\ AuthInit /\ UploadInit /\ DaemonInit

AuthNext ==
    \/ \E u \in UsernameInputs, p \in PasswordInputs : AdminLogin(u, p)
    \/ CreateSessionWrite
    \/ \E token \in 0..(nextToken - 1) : AdminLogout(token)
    \/ LogoutDeleteWrite
    \/ \E r \in Slots, token \in 0..(nextToken - 1) : CleanupRead(r, token)
    \/ \E r \in Slots : CleanupWrite(r)
    \/ \E r \in Slots : ValidateSession(r)
    \/ \E r \in Slots : ValidateAdmin(r)
    \/ \E r \in Slots : DeleteSessionRead(r)
    \/ \E r \in Slots : DeleteSessionWrite(r)
    \/ \E r \in Slots : ListAdminUsers(r)
    \/ \E r \in Slots, u \in UsernameInputs, p \in NewPasswords : CreateAdminUser(r, u, p)
    \/ \E r \in Slots, id \in 1..(nextAdminId - 1), p \in OptPasswords, f \in OptFlags :
          UpdateAdminUser(r, id, p, f)
    \/ \E r \in Slots, id \in 1..(nextAdminId - 1) : DeleteAdminUser(r, id)
    \/ Deliver
    \/ Tick

SpecAuth == Init /\ [][AuthNext]_vars

\* the admin API of a server that is also stopped and started again
AdminsNext ==
    \/ AuthNext
    \/ StartupEvent

SpecAdmins == Init /\ [][AdminsNext]_vars

StoreNext ==
    \/ \E t \in Threads : UpdateAcquire(t)
    \/ \E t \in Threads : UpdateRead(t)
    \/ \E t \in Threads : UpdateMutate(t)
    \/ \E t \in Threads : UpdateRelease(t)
    \/ \E t \in Threads : SplitRead(t)
    \/ \E t \in Threads : SplitMutate(t)
    \/ \E t \in Threads : WriteBegin(t)
    \/ \E t \in Threads : WriteChunk(t)
    \/ \E t \in Threads : WriteClose(t)
    \/ \E t \in Threads : WriteReplace(t)
    \/ Crash
    \/ ExternalRead

SpecStore == Init /\ [][StoreNext]_vars

SpecUpload == Init /\ [][UploadNext]_vars

SpecRetention == RetentionInit /\ [][RetentionNext]_vars

\* the event loop gives every task that can run its turn; nothing makes
\* time pass or the server shut down
SpecRetentionLive ==
    /\ RetentionInit
    /\ [][RetentionNext]_vars
    /\ WF_vars(\E stuck \in SUBSET PassTargets : DaemonStart(stuck))
    /\ WF_vars(\E stuck \in SUBSET PassTargets : DaemonTimeout(stuck))
    /\ WF_vars(DaemonWake)

\* a batch whose only file has a forbidden extension: the handler resolves
\* the uploader and then refuses the batch
RefusedBatch == << <<GoodText>>, <<GoodText>>,
                   <<[stem |-> <<"p", "a", "r", "t">>, suffix |-> <<".", "e", "x", "e">>]>> >>

DirectoryNext ==
    \/ \E stuck \in SUBSET PassTargets : DaemonStart(stuck)
    \/ \E who \in DirectoryInputs : CreateUploader(who.name, who.grade)
    \/ \E u \in Uploads, who \in DirectoryInputs :
          CreateUploadBatch(u, who, RefusedBatch[1], RefusedBatch[2], RefusedBatch[3], TRUE)
    \/ \E uploader_id \in 1..(Len(uploaders) + 1), display_name \in OptNames,
          grade \in OptGrades, is_active_for_upload \in OptFlags :
          AdminUpdateUploader(uploader_id, display_name, grade, is_active_for_upload)
    \/ \E uploader_id \in 1..(Len(uploaders) + 1) : AdminDisableUploader(uploader_id)
    \/ \E chosen \in SUBSET (1..Len(LegacyUsers)) : ImportLegacy(chosen)
    \/ Deliver

SpecUploaders == Init /\ [][DirectoryNext]_vars

\* a batch of one well-formed file
AcceptedBatch == << <<GoodText>>, <<GoodText>>, <<GoodFile>> >>
\* the uploads sent while admins edit the directory: by one name in two
\* spellings, with and without a grade, accepted and refused
AttributionInputs ==
    [name : {<<"Z", "o", "e">>, <<" ", "z", "O", "E">>}, grade : {<<>>, <<7>>}]

\* uploads next to the admin edits of the uploader directory; the disk
\* does not fail
AttributionNext ==
    \/ \E stuck \in SUBSET PassTargets : DaemonStart(stuck)
    \/ \E u \in Uploads, who \in AttributionInputs, b \in {AcceptedBatch, RefusedBatch} :
          CreateUploadBatch(u, who, b[1], b[2], b[3], TRUE)
    \/ \E u \in Uploads, len \in ChunkLens : ReadChunk(u, len, TRUE)
    \/ \E u \in Uploads : CloseUpload(u, TRUE, TRUE, TRUE)
    \/ \E uploader_id \in 1..(Len(uploaders) + 1), display_name \in OptNames,
          grade \in {<<>>, <<7>>}, is_active_for_upload \in OptFlags :
          AdminUpdateUploader(uploader_id, display_name, grade, is_active_for_upload)
    \/ \E uploader_id \in 1..(Len(uploaders) + 1) : AdminDisableUploader(uploader_id)
    \/ \E chosen \in SUBSET {3, 4} : ImportLegacy(chosen)
    \/ Deliver

SpecAttribution == Init /\ [][AttributionNext]_vars

\* the settings read_settings can return: the three access modes that
\* update_settings stores (settings.py:96-102) and a value that is none of
\* them (a settings.json written by hand), with and without a configured
\* password
AccessSettings ==
    {[Settings EXCEPT !.upload_access_mode = mode, !.upload_shared_password = password] :
        mode \in {"open_lan", "shared_password", "disabled", "closed"},
        password \in {"", "pw1"}}
\* the upload_password field of the form: missing, empty, right, wrong
PasswordFields == {<<>>, <<"">>, <<"pw1">>, <<"pw2">>}
AccessUploader == [name |-> <<"Z", "o", "e">>, grade |-> <<9>>]

\* uploads under every access setting; the disk does not fail
AccessNext ==
    \/ \E stuck \in SUBSET PassTargets : DaemonStart(stuck)
    \/ \E u \in Uploads, settings \in AccessSettings, upload_password \in PasswordFields :
          CreateUploadBatchUnder(u, settings, upload_password, AccessUploader,
                                 AcceptedBatch[1], AcceptedBatch[2], AcceptedBatch[3], TRUE)
    \/ \E u \in Uploads, len \in ChunkLens : ReadChunk(u, len, TRUE)
    \/ \E u \in Uploads : CloseUpload(u, TRUE, TRUE, TRUE)

SpecAccess == Init /\ [][AccessNext]_vars

\* the lengths upload_file.read returns around the cap: half of the
\* largest chunk and one byte more, so that two chunks make a file of less
\* than the cap, of exactly the cap, or of more
HalfChunk == Mebibyte \div 2
SaveChunkLens == {0, HalfChunk - 1, HalfChunk, HalfChunk + 1}

\* uploads of one file read in such chunks; the disk does not fail
SaveNext ==
    \/ \E stuck \in SUBSET PassTargets : DaemonStart(stuck)
    \/ \E u \in Uploads :
          CreateUploadBatch(u, AccessUploader, AcceptedBatch[1], AcceptedBatch[2],
                            AcceptedBatch[3], TRUE)
    \/ \E u \in Uploads, len \in SaveChunkLens : ReadChunk(u, len, TRUE)
    \/ \E u \in Uploads : CloseUpload(u, TRUE, TRUE, TRUE)

SpecSave == Init /\ [][SaveNext]_vars

\* a batch of two well-formed files
TwoFileBatch == << <<GoodText, GoodText>>, <<GoodText, GoodText>>, <<GoodFile, GoodFile>> >>

\* uploads whose clients may go away; the disk does not fail
CancelNext ==
    \/ \E stuck \in SUBSET PassTargets : DaemonStart(stuck)
    \/ \E u \in Uploads, b \in {AcceptedBatch, TwoFileBatch} :
          CreateUploadBatch(u, AccessUploader, b[1], b[2], b[3], TRUE)
    \/ \E u \in Uploads, len \in ChunkLens : ReadChunk(u, len, TRUE)
    \/ \E u \in Uploads : CloseUpload(u, TRUE, TRUE, TRUE)
    \/ \E u \in Uploads : Cancel(u)

SpecCancel == Init /\ [][CancelNext]_vars

\* the requests to delete files: the ids asked for, and the blobs among
\* theirs whose unlink fails
DeleteRequests ==
    UNION {{<<file_ids, stuck>> : stuck \in SUBSET StoredOf(file_ids)} :
              file_ids \in SUBSET FileIds}

\* uploads and an admin who lists, downloads and deletes; the disk fails
\* only at an unlink
AdminFilesNext ==
    \/ DaemonStart({})
    \/ \E u \in Uploads, b \in {AcceptedBatch, TwoFileBatch} :
          CreateUploadBatch(u, AccessUploader, b[1], b[2], b[3], TRUE)
    \/ \E u \in Uploads : ReadChunk(u, 0, TRUE)
    \/ \E u \in Uploads : CloseUpload(u, TRUE, TRUE, TRUE)
    \/ \E request \in DeleteRequests : AdminDeleteMany(request[1], request[2])
    \/ AdminUploads
    \/ \E file_id \in FileIds : AdminDownloadFile(file_id)
    \/ Deliver

SpecAdminFiles == Init /\ [][AdminFilesNext]_vars

\* settings.py:93-94 the settings after an admin has emptied
\* allowed_extensions: every extension is accepted
AnyExtensionSettings == [Settings EXCEPT !.allowed_extensions = {}]

\* descriptions without the extension, with it in either case and between
\* blanks, and the filename itself
DescriptionInputs ==
    {<<"A", "m">>,
     <<"A", "m", ".", "S", "T", "L">>,
     <<" ", "A", "m", ".", "s", "t", "l", " ">>,
     <<"p", "a", "r", "t", ".", "s", "t", "l">>}

\* a filename with an extension and one without
NamedFiles ==
    {[stem |-> <<"p", "a", "r", "t">>, suffix |-> <<".", "s", "t", "l">>],
     [stem |-> <<"p", "a", "r", "t">>, suffix |-> <<>>]}

\* uploads of one described file, and an admin who lists and downloads
FilenamesNext ==
    \/ DaemonStart({})
    \/ \E u \in Uploads, description \in DescriptionInputs, file \in NamedFiles :
          CreateUploadBatchUnder(u, AnyExtensionSettings, <<>>, AccessUploader,
                                 <<description>>, <<GoodText>>, <<file>>, TRUE)
    \/ \E u \in Uploads : ReadChunk(u, 0, TRUE)
    \/ \E u \in Uploads : CloseUpload(u, TRUE, TRUE, TRUE)
    \/ AdminUploads
    \/ \E file_ids \in SUBSET FileIds : AdminDownloadMany(file_ids)
    \/ \E file_id \in FileIds : AdminDownloadFile(file_id)
    \/ Deliver

SpecFilenames == Init /\ [][FilenamesNext]_vars

(***************************************************************************)
(* storage.py: the documents of the six collections as Python values and  *)
(* as JSON text.  A value is a tagged pair; a number is written by its     *)
(* digits.  Here target holds one file for each collection.                *)
(***************************************************************************)
PyStr(s) == <<"str", s>>
PyInt(digits) == <<"int", digits>>
PyTrue == <<"bool", "true">>
PyNone == <<"None", "null">>
PyList(items) == <<"list", items>>
PyTuple(items) == <<"tuple", items>>
\* a dict: its items, <<key, value>>, in insertion order
PyDict(items) == <<"dict", items>>

\* json.dump (storage.py:51) with the default encoder: a tuple becomes an
\* array like a list, and a key that is no str becomes its text
RECURSIVE JsonDump(_)
JsonDump(value) ==
    CASE value[1] = "str" -> <<"string", value[2]>>
      [] value[1] = "int" -> <<"number", value[2]>>
      [] value[1] \in {"bool", "None"} -> <<"literal", value[2]>>
      [] value[1] \in {"list", "tuple"} ->
            <<"array", [i \in 1..Len(value[2]) |-> JsonDump(value[2][i])]>>
      [] value[1] = "dict" ->
            <<"object", [i \in 1..Len(value[2]) |->
                            <<value[2][i][1][2], JsonDump(value[2][i][2])>>]>>

\* the members of a JSON object as json.load keeps them: one item for each
\* name, at the place of its first member, with the value of its last
Members(members) ==
    LET n == Len(members)
        firsts == SelectSeq([i \in 1..n |-> i],
                            LAMBDA i : \A j \in 1..(i - 1) : members[j][1] # members[i][1])
        last(i) == CHOOSE j \in i..n :
                       /\ members[j][1] = members[i][1]
                       /\ \A k \in (j + 1)..n : members[k][1] # members[i][1]
    IN  [x \in 1..Len(firsts) |-> members[last(firsts[x])]]

\* json.load (storage.py:91): an array is read as a list, a name as a str
RECURSIVE JsonLoad(_)
JsonLoad(text) ==
    CASE text[1] = "string" -> PyStr(text[2])
      [] text[1] = "number" -> PyInt(text[2])
      [] text[1] = "literal" -> IF text[2] = "null" THEN PyNone ELSE <<"bool", text[2]>>
      [] text[1] = "array" -> PyList([i \in 1..Len(text[2]) |-> JsonLoad(text[2][i])])
      [] text[1] = "object" ->
            LET members == Members(text[2])
            IN  PyDict([i \in 1..Len(members) |->
                           <<PyStr(members[i][1]), JsonLoad(members[i][2])>>])

\* storage.py:86-135 the collections: admins.json ... groups.json
Collections == {"admins", "sessions", "uploaders", "uploads", "settings", "groups"}

\* storage.py:17-23 DEFAULT_SETTINGS as a Python dict
PY_DEFAULT_SETTINGS ==
    PyDict(<< <<PyStr("retention_days"), PyInt("30")>>,
              <<PyStr("max_file_size_mb"), PyInt("1024")>>,
              <<PyStr("allowed_extensions"), PyList(<<PyStr(".stl"), PyStr(".json")>>)>>,
              <<PyStr("upload_access_mode"), PyStr("open_lan")>>,
              <<PyStr("upload_shared_password"), PyStr("")>> >>)

\* storage.py:17-29 DEFAULT_*: the default payload of a collection
DefaultPayload(c) ==
    CASE c = "settings" -> PY_DEFAULT_SETTINGS
      [] c = "uploads" -> PyDict(<< <<PyStr("batches"), PyList(<<>>)>>,
                                   <<PyStr("files"), PyList(<<>>)>> >>)
      [] c = "groups" -> PyDict(<< <<PyStr("groups"), PyDict(<<>>)>> >>)
      [] OTHER -> PyDict(<< <<PyStr(c), PyList(<<>>)>> >>)

\* storage.py:122-123, 128-129 for key, value in DEFAULT_SETTINGS.items():
\* payload.setdefault(key, value)
SetDefaults(payload, defaults) ==
    PyDict(payload[2] \o
           SelectSeq(defaults[2],
                     LAMBDA item : \A i \in 1..Len(payload[2]) : payload[2][i][1] # item[1]))

\* storage.py:71-84 initialize on an empty data directory
DocumentFilesInit ==
    /\ lockOwner = NoThread
    /\ lockDepth = 0
    /\ tpc = [t \in Threads |-> "idle"]
    /\ top = [t \in Threads |-> "none"]
    /\ tdata = [t \in Threads |-> PyNone]
    /\ target = [c \in Collections |-> JsonDump(DefaultPayload(c))]
    /\ tmp = [t \in Threads |-> NoFile]
    /\ lastRead = Parse(Serialize(DefaultDoc))
    /\ crashes = 0

\* A write_settings that fills the defaults into a copy of the payload
WriteCollectionOfCopy(t, c, payload) ==
    /\ tpc[t] = "idle"
    /\ CanLock(t)
    /\ target' = [target EXCEPT
                    ![c] = JsonDump(IF c = "settings"
                                    THEN SetDefaults(payload, PY_DEFAULT_SETTINGS)
                                    ELSE payload)]
    /\ tdata' = [tdata EXCEPT ![t] = payload]
    /\ top' = [top EXCEPT ![t] = c]
    /\ tpc' = [tpc EXCEPT ![t] = "stored"]
    /\ UNCHANGED <<lockOwner, lockDepth, tmp, lastRead, crashes>>
    /\ UNCHANGED NotStore

\* storage.py:93-135 write_admins ... write_groups, each one call of
\* _write_json (lines 93-95, 48-53) under the lock; write_settings first
\* fills the defaults into the payload of its caller (lines 127-130).
\* tdata[t] is the payload as the caller holds it after the call.
WriteCollection(t, c, payload) ==
    /\ tpc[t] = "idle"
    /\ CanLock(t)
    /\ LET written == IF c = "settings"
                      THEN SetDefaults(payload, PY_DEFAULT_SETTINGS)
                      ELSE payload
       IN  /\ target' = [target EXCEPT ![c] = JsonDump(written)]
           /\ tdata' = [tdata EXCEPT ![t] = written]
    /\ top' = [top EXCEPT ![t] = c]
    /\ tpc' = [tpc EXCEPT ![t] = "stored"]
    /\ UNCHANGED <<lockOwner, lockDepth, tmp, lastRead, crashes>>
    /\ UNCHANGED NotStore

\* storage.py:86-91 _read_json: the file left after the call
FileAfterRead(files, c) ==
    IF files[c] = NoFile
    THEN [files EXCEPT ![c] = JsonDump(DefaultPayload(c))]
    ELSE files

\* storage.py:97-133 read_admins ... read_groups: what the call returns;
\* read_settings fills the defaults into what it has read (lines 121-125)
ReadResult(files, c) ==
    LET data == JsonLoad(FileAfterRead(files, c)[c])
    IN  IF c = "settings" THEN SetDefaults(data, PY_DEFAULT_SETTINGS) ELSE data

\* storage.py:97-133 a read of collection c by a caller that has done
\* nothing yet, or that has written c and reads it back
ReadCollection(t, c) ==
    /\ tpc[t] = "idle" \/ (tpc[t] = "stored" /\ top[t] = c)
    /\ CanLock(t)
    /\ target' = FileAfterRead(target, c)
    /\ tdata' = [tdata EXCEPT ![t] = ReadResult(target, c)]
    /\ top' = [top EXCEPT ![t] = c]
    /\ tpc' = [tpc EXCEPT ![t] = IF tpc[t] = "stored" THEN "reloaded" ELSE "loaded"]
    /\ UNCHANGED <<lockOwner, lockDepth, tmp, lastRead, crashes>>
    /\ UNCHANGED NotStore

\* the values a document holds under a key: the scalars, and a list, a
\* tuple and a dict of one scalar
PyValues ==
    {PyStr("a"), PyInt("1"), PyNone,
     PyList(<<PyInt("1")>>), PyTuple(<<PyInt("1")>>),
     PyDict(<< <<PyStr("a"), PyNone>> >>), PyDict(<< <<PyInt("1"), PyNone>> >>)}

\* the keys of a document: two strings, and the number whose text is one
\* of them
PyKeys == {PyStr("a"), PyStr("1"), PyInt("1")}

\* the documents json.dump accepts that a caller writes: one key with any
\* value, or two different keys, the first with a string and the second
\* with None
Documents ==
    {PyDict(<< <<k, v>> >>) : k \in PyKeys, v \in PyValues}
    \cup {PyDict(<< <<p[1], PyStr("a")>>, <<p[2], PyNone>> >>) :
             p \in {q \in PyKeys \X PyKeys : q[1] # q[2]}}

\* each thread is a caller that writes one document and reads the
\* collection back, or that reads one collection
DocumentsNext ==
    \/ \E t \in Threads, c \in Collections, payload \in Documents :
          WriteCollection(t, c, payload)
    \/ \E t \in Threads, c \in Collections : ReadCollection(t, c)

DocumentsInit == DocumentFilesInit /\ AuthInit /\ UploadInit /\ DaemonInit

SpecDocuments == DocumentsInit /\ [][DocumentsNext]_vars

\* hash_password(p), auth.py:25-27: the texts it can return
HashPassword(password) == {HashPbkdf2(password, salt, PBKDF2_ITERATIONS) : salt \in Salts}

\* a hashed password with another algorithm tag
WrongAlgorithm(hashed) ==
    {[hashed EXCEPT ![1] = Text(tag)] : tag \in {"pbkdf2_sha1", "PBKDF2_SHA256"}}

\* a hashed password with one field changed: the digest, the salt (to
\* another salt, or to the same salt in capitals), the iteration count (to
\* another count, or to the same count written otherwise), or a field added
Tampered(hashed) ==
    {[hashed EXCEPT ![7] = DigestHex("other", "saltA", PBKDF2_ITERATIONS)]}
    \cup {[hashed EXCEPT ![5] = Text(salt_hex)] : salt_hex \in {"bb", "AA"}}
    \cup {[hashed EXCEPT ![3] = Text(count)] : count \in {"1", "0390000", " 390000"}}
    \cup {hashed \o <<Dollar, Text("x")>>}

\* texts that are no encoding of a password: too few fields, a salt that
\* is no hex, a count that is no number, and the texts _hash_pbkdf2 would
\* give for a count below one if pbkdf2_hmac took it
Malformed(password, hashed) ==
    {<<>>, <<Text(password)>>, SubSeq(hashed, 1, 3), SubSeq(hashed, 1, 5)}
    \cup {[hashed EXCEPT ![5] = Text("zz")], [hashed EXCEPT ![3] = Text("abc")]}
    \cup {HashPbkdf2(password, salt, count) : salt \in Salts, count \in {0, -5}}

\* the password_hash texts an admins.json found at startup may hold
EncodedInputs ==
    UNION {HashPassword(p) \cup {HashPbkdf2(p, "", PBKDF2_ITERATIONS)}
           \cup UNION {WrongAlgorithm(h) \cup Tampered(h) \cup Malformed(p, h) :
                          h \in HashPassword(p)} :
              p \in PasswordInputs}

\* app.py:47-55 startup_event on a data directory whose admins.json holds
\* the default admin with any password_hash (DataStore.initialize keeps an
\* existing file, ensure_default_admin an existing Admin)
ExistingAdminInit ==
    /\ \E encoded \in EncodedInputs, salt \in Salts :
          admins = EnsureDefaultAdmin(
                       <<[NewAdmin(1, DEFAULT_ADMIN_USERNAME, BootstrapPassword, salt)
                             EXCEPT !.password_hash = encoded]>>, 2, salt)
    /\ sessions = <<>>
    /\ clock = 0
    /\ reqs = [r \in Slots |-> IdleReq]
    /\ ev = IdleLoop
    /\ resp = NoResp
    /\ nextAdminId = 2
    /\ nextToken = 1
    /\ revoked = {}

PasswordsInit == StoreInit /\ ExistingAdminInit /\ UploadInit /\ DaemonInit

\* logins and logouts of the admin found at startup
PasswordsNext ==
    \/ \E u \in UsernameInputs, p \in PasswordInputs : AdminLogin(u, p)
    \/ CreateSessionWrite
    \/ \E token \in 0..(nextToken - 1) : AdminLogout(token)
    \/ LogoutDeleteWrite
    \/ Deliver

SpecPasswords == PasswordsInit /\ [][PasswordsNext]_vars

\* the forms of one or two rows, each row with a blank or a filled
\* description, a blank or a filled version and an allowed or a forbidden
\* extension
RowInputs ==
    {b \in ListsOf(TextInputs) \X ListsOf(TextInputs) \X ListsOf(FilenameInputs) :
        Len(b[3]) >= 1 /\ Len(b[1]) = Len(b[3]) /\ Len(b[2]) = Len(b[3])}

\* uploads of such forms under an allow-list and under an empty one; the
\* disk does not fail
ValidationNext ==
    \/ DaemonStart({})
    \/ \E u \in Uploads, settings \in {Settings, AnyExtensionSettings}, b \in RowInputs :
          CreateUploadBatchUnder(u, settings, <<>>, AccessUploader, b[1], b[2], b[3], TRUE)
    \/ \E u \in Uploads, len \in ChunkLens : ReadChunk(u, len, TRUE)
    \/ \E u \in Uploads : CloseUpload(u, TRUE, TRUE, TRUE)

SpecValidation == Init /\ [][ValidationNext]_vars

\* the settings a pass can read: a retention period of no day, of a
\* negative number of days, of one day and of two
RetentionSettings == {[Settings EXCEPT !.retention_days = d] : d \in {-1, 0, 1, 2}}

\* the blobs whose unlink can fail
StuckBlobs == SUBSET {StoredName(Existing, k) : k \in FileIndexes}

\* the daemon on an existing data directory under such settings
PeriodsNext ==
    \/ \E settings \in RetentionSettings, stuck \in StuckBlobs :
          DaemonStartUnder(settings, stuck)
    \/ \E settings \in RetentionSettings, stuck \in StuckBlobs :
          DaemonTimeoutUnder(settings, stuck)
    \/ DaemonWake
    \/ Shutdown
    \/ TimePasses

SpecPeriods == RetentionInit /\ [][PeriodsNext]_vars

(***************************************************************************)
(* settings.py:74-115 update_settings.  In the specification of this part  *)
(* target is the settings collection file: the settings it holds, with     *)
(* backend_port and web_port <<>> while the file has no such key.  The     *)
(* handler is a coroutine without an await inside.                         *)
(***************************************************************************)
\* settings.py:42-55 _normalize_extensions; the model keeps the extensions
\* as a set
NormalizeExtensions(values) ==
    LET Ext(value) == Strip(Lower(value))
        Dotted(ext) == IF ext[1] = "." THEN ext ELSE <<".">> \o ext
    IN  {Dotted(Ext(values[i])) : i \in {j \in 1..Len(values) : Ext(values[j]) # <<>>}}

\* settings.py:82-112 the body of update_settings on the dict read_settings
\* returned: the status of the call (0 when it reaches write_settings) and
\* the dict as the call leaves it in memory; body fields are <<>> for None
UpdateSettingsBody(settings, body) ==
    LET Low(field) == field # <<>> /\ field[1] < 1
        NoPort(field) == field # <<>> /\ (field[1] < 1 \/ field[1] > 65535)
        days == IF body.retention_days = <<>> THEN settings
                ELSE [settings EXCEPT !.retention_days = body.retention_days[1]]
        size == IF body.max_file_size_mb = <<>> THEN days
                ELSE [days EXCEPT !.max_file_size_mb = body.max_file_size_mb[1]]
        exts == IF body.allowed_extensions = <<>> THEN size
                ELSE [size EXCEPT !.allowed_extensions =
                         NormalizeExtensions(body.allowed_extensions[1])]
        mode == IF body.upload_access_mode = <<>> THEN exts
                ELSE [exts EXCEPT !.upload_access_mode = body.upload_access_mode[1]]
        word == IF body.upload_shared_password = <<>> THEN mode
                ELSE [mode EXCEPT !.upload_shared_password = body.upload_shared_password[1]]
        back == IF body.backend_port = <<>> THEN word
                ELSE [word EXCEPT !.backend_port = body.backend_port]
        web == IF body.web_port = <<>> THEN back
               ELSE [back EXCEPT !.web_port = body.web_port]
    IN  IF Low(body.retention_days) THEN [status |-> 400, settings |-> settings]
        ELSE IF Low(body.max_file_size_mb) THEN [status |-> 400, settings |-> days]
        ELSE IF /\ body.upload_access_mode # <<>>
                /\ body.upload_access_mode[1] \notin {"open_lan", "shared_password", "disabled"}
        THEN [status |-> 400, settings |-> exts]
        ELSE IF NoPort(body.backend_port) THEN [status |-> 400, settings |-> word]
        ELSE IF NoPort(body.web_port) THEN [status |-> 400, settings |-> back]
        ELSE [status |-> 0, settings |-> web]

\* An update that writes the dict it holds also when it refuses the request
UpdateSettingsWritesAnyway(body) ==
    /\ Serving
    /\ resp = NoResp
    /\ LET updated == UpdateSettingsBody(target, body)
       IN  /\ target' = updated.settings
           /\ resp' = Response("update_settings", HttpStatus(updated.status), "")
    /\ UNCHANGED <<lockOwner, lockDepth, tpc, top, tdata, tmp, lastRead, crashes>>
    /\ UNCHANGED <<admins, sessions, clock, reqs, ev, nextAdminId, nextToken, revoked>>
    /\ UNCHANGED <<uploadVars, daemonVars>>

\* settings.py:74-115 update_settings, once require_admin has accepted the
\* caller: read_settings, the checks and assignments, write_settings
UpdateSettings(body) ==
    /\ Serving
    /\ resp = NoResp
    /\ LET updated == UpdateSettingsBody(target, body)
       IN  /\ target' = IF updated.status = 0 THEN updated.settings ELSE target
           /\ resp' = Response("update_settings", HttpStatus(updated.status), "")
    /\ UNCHANGED <<lockOwner, lockDepth, tpc, top, tdata, tmp, lastRead, crashes>>
    /\ UNCHANGED <<admins, sessions, clock, reqs, ev, nextAdminId, nextToken, revoked>>
    /\ UNCHANGED <<uploadVars, daemonVars>>

\* storage.py:71-84 initialize on an empty data directory: settings.json
\* holds DEFAULT_SETTINGS, which has no port
SettingsFileInit ==
    /\ lockOwner = NoThread
    /\ lockDepth = 0
    /\ tpc = [t \in Threads |-> "idle"]
    /\ top = [t \in Threads |-> "none"]
    /\ tdata = [t \in Threads |-> DefaultDoc]
    /\ target = [key \in DOMAIN Settings \cup {"backend_port", "web_port"} |->
                    IF key \in DOMAIN Settings THEN Settings[key] ELSE <<>>]
    /\ tmp = [t \in Threads |-> NoFile]
    /\ lastRead = Parse(Serialize(DefaultDoc))
    /\ crashes = 0

\* the bodies of PUT /api/admin/settings: each checked field absent, valid
\* or not, without a password; and bodies that set the password
SettingsBodies ==
    LET fields == [retention_days : {<<>>, <<0>>, <<7>>},
                   max_file_size_mb : {<<>>, <<0>>, <<5>>},
                   allowed_extensions :
                       {<<>>, << << <<"S", "T", "L">>, <<" ", ".", "s", "t", "l">>, <<" ">> >> >>},
                   upload_access_mode : {<<>>, <<"disabled">>, <<"closed">>},
                   upload_shared_password : {<<>>},
                   backend_port : {<<>>, <<8080>>, <<65536>>},
                   web_port : {<<>>, <<0>>}]
    IN  fields \cup {[body EXCEPT !.upload_shared_password = <<"secret1">>] :
                        body \in {b \in fields : b.allowed_extensions = <<>>
                                                      /\ b.max_file_size_mb = <<>>
                                                      /\ b.backend_port = <<>>}}

SettingsInit == SettingsFileInit /\ AuthInit /\ UploadInit /\ DaemonInit

\* an admin who edits the settings
SettingsNext ==
    \/ DaemonStart({})
    \/ \E body \in SettingsBodies : UpdateSettings(body)
    \/ Deliver

SpecSettings == SettingsInit /\ [][SettingsNext]_vars

(***************************************************************************)
(* Claims about the document store                                         *)
(***************************************************************************)
\* t is inside an update call, between its read and the end of its write
InUpdateBetween(t) ==
    /\ top[t] = "update"
    /\ tpc[t] \in {"u_read", "u_mut", "w_dump", "w_closed"}

\* thread u performs a read or a write call of the store in this step
\* (the local change of a payload is no store call)
StoreCallStep(u) ==
    /\ tpc'[u] # tpc[u]
    /\ tpc'[u] \notin {"s_mut", "u_mut"}

Marks(text) == Parse(text).doc

\* C3: DataStore.update holds the store lock from before its read until
\* after its write: while a thread is between the read and the write of an
\* update call it owns the lock and no other thread makes a read or a write
\* call on the store; the document an update writes is the mutation applied
\* to the document then on disk; so when all threads ran update, every
\* thread's mutation is in the final document.
C3_UpdateAtomic ==
    /\ [](\A t \in Threads : InUpdateBetween(t) => lockOwner = t)
    /\ []((\A t \in Threads : top[t] = "update" /\ tpc[t] = "done")
            => \A t \in Threads : Mark(t) \in Marks(target))
    /\ [][\A t \in Threads :
            /\ (InUpdateBetween(t) /\ crashes' = crashes)
                 => \A u \in Threads \ {t} : ~StoreCallStep(u)
            /\ (top[t] = "update" /\ tpc[t] = "w_closed" /\ tpc'[t] = "u_written")
                 => target' = Serialize(Mutate(Parse(target).doc, t))
         ]_vars

\* C3 witness: every thread ran update concurrently with the others and all
\* the mutations are in the document.
C3_Witness ==
    /\ \A t \in Threads : top[t] = "update" /\ tpc[t] = "done"
    /\ \A t \in Threads : Mark(t) \in Marks(target)

\* C4: at every step of atomic_write_json, a crash included, and for a
\* reader that does not take the lock, the collection file holds a complete
\* document: it only ever changes from one complete document to the
\* complete document a writer has finished writing to its temporary file.
C4_TargetAlwaysComplete ==
    /\ [](WellFormed(target) /\ lastRead.ok)
    /\ [][target' # target =>
            \E t \in Threads :
                /\ tpc[t] = "w_closed"
                /\ target' = Serialize(tdata[t])
         ]_vars

\* C4 witness: the process crashed after a writer had started its temporary
\* file and before the rename; the collection file is read afterwards.
C4_Witness ==
    /\ crashes > 0
    /\ \E t \in Threads :
          /\ tpc[t] = "idle"
          /\ tmp[t] # NoFile
          /\ ~WellFormed(tmp[t])
    /\ lastRead = Parse(target)
    /\ Parse(target).doc # {}

(***************************************************************************)
(* Claims about admins and sessions                                        *)
(***************************************************************************)
SessionIds(list) == {list[i].id : i \in 1..Len(list)}

\* list without its k-th element
DropAt(list, k) == SubSeq(list, 1, k - 1) \o SubSeq(list, k + 1, Len(list))

\* request r's dependency has just returned an admin
Accepted(r) == reqs[r].pc # "validated" /\ reqs'[r].pc = "validated"

\* C5: in every reachable state the admins collection contains at least one
\* admin with is_active true.
C5_ActiveAdminRemains ==
    \E i \in 1..Len(admins) : admins[i].is_active

\* C6: delete_admin_user is refused and leaves the admins collection
\* unchanged when the target is the caller's own id or when no active admin
\* would remain; otherwise it removes exactly the targeted record (nothing,
\* with a 404, when no record has that id).
C6_DeleteRefusedOrExact ==
    [][\A r \in Slots, id \in 1..MaxAdmins :
          DeleteAdminUser(r, id) =>
             LET self == reqs[r].caller = id
                 activeLeft == \E i \in 1..Len(admins) :
                                  admins[i].id # id /\ admins[i].is_active
                 hits == {k \in 1..Len(admins) : admins[k].id = id}
             IN IF self \/ ~activeLeft
                THEN admins' = admins /\ resp'.status \in {400, 404}
                ELSE IF hits = {}
                THEN admins' = admins /\ resp'.status = 404
                ELSE /\ \E k \in hits : admins' = DropAt(admins, k)
                     /\ resp'.status = 200
      ]_vars

C6_Witness ==
    /\ resp = Response("delete_admin", 200, "")
    /\ Len(admins) = 1
    /\ nextAdminId > 2

C8_NeverAcceptedAgain ==
    [][\A r \in Slots : Accepted(r) => reqs'[r].token \notin revoked]_vars

\* C8 (amended): a validation that finds an unexpired session whose admin is
\* missing or inactive is rejected as unauthorized and writes the sessions
\* back without that session's record; a session is accepted only when its
\* admin exists and is active at the time the admin is looked up.
C8_UnavailableAdminRejected ==
    [][\A r \in Slots :
          LET live == \E i \in 1..Len(admins) :
                         admins[i].id = reqs[r].caller /\ admins[i].is_active
          IN /\ (ValidateAdmin(r) /\ ~live) => reqs'[r].pc = "unavailable"
             /\ Accepted(r) => live
             /\ (reqs[r].pc \in {"unavailable", "unavailable_del"} /\ reqs'[r] # reqs[r]) =>
                  \/ reqs[r].pc = "unavailable" /\ reqs'[r].pc = "unavailable_del"
                  \/ /\ reqs'[r].pc = "idle"
                     /\ resp' = AuthReject(reqs[r].token, "Admin unavailable")
                     /\ reqs[r].token \notin SessionIds(sessions')
      ]_vars

C8_Witness ==
    /\ resp.op = "auth"
    /\ resp.detail = "Admin unavailable"
    /\ resp.token \in revoked
    /\ resp.token \notin SessionIds(sessions)

\* the list `after` is the list `before` without the session of id, and
\* deleting id from it once more changes nothing
RemovedExactly(before, after, id) ==
    LET hits == {k \in 1..Len(before) : before[k].id = id}
    IN /\ IF hits = {}
          THEN after = before
          ELSE \E k \in hits : after = DropAt(before, k)
       /\ id \notin SessionIds(after)
       /\ DeleteSession(after, id) = after

\* C9: delete_session(id) removes exactly the session with that id from the
\* list it read and writes the result; for an absent id the list is
\* unchanged and no error is raised; deleting twice gives what deleting
\* once gives.
C9_DeleteSessionIdempotent ==
    [][/\ \A token \in 1..MaxTokens :
             AdminLogout(token) =>
                /\ ev'.pc = "logout"
                /\ RemovedExactly(sessions, ev'.snap, token)
       /\ LogoutDeleteWrite =>
             /\ sessions' = ev.snap
             /\ resp' = [Response("logout", 200, "") EXCEPT !.token = ev.token]
       /\ \A r \in Slots :
             /\ DeleteSessionRead(r) =>
                   RemovedExactly(sessions, reqs'[r].snap, reqs[r].token)
             /\ DeleteSessionWrite(r) => sessions' = reqs[r].snap
      ]_vars

C9_Witness ==
    /\ resp.op = "logout"
    /\ resp.status = 200
    /\ resp.token # NoToken
    /\ resp.token \notin SessionIds(sessions)
    /\ sessions # <<>>

\* what authenticate_admin does on a call, `matches` being the indices of
\* the admins the username is taken to name
AuthenticateContract(matches, password) ==
    LET good == {i \in matches :
                    /\ admins[i].is_active
                    /\ \E salt \in Salts :
                          admins[i].password_hash =
                             HashPbkdf2(password, salt, PBKDF2_ITERATIONS)}
    IN IF good # {}
       THEN /\ ev'.pc = "login"
            /\ \E i \in good : admins' = [admins EXCEPT ![i].last_login_at = clock]
       ELSE /\ resp' = Response("login", 401, "Invalid credentials")
            /\ ev' = ev
            /\ admins' = admins

\* C10 (as stated): authenticate_admin succeeds if and only if an admin whose
\* username equals the given one ignoring case exists, is active, and the
\* password verifies.
C10_IffEqualIgnoringCase ==
    [][\A u \in UsernameInputs, p \in PasswordInputs :
          AdminLogin(u, p) =>
             AuthenticateContract(
                {i \in 1..Len(admins) : Lower(admins[i].username) = Lower(u)}, p)
      ]_vars

\* C10 (amended): authenticate_admin succeeds if and only if an admin whose
\* username equals the given one, ignoring case and the given one's leading
\* and trailing whitespace, exists, is active, and the password verifies; on
\* success it sets last_login_at and persists it; every failure gives the
\* same result and leaves the admins collection unchanged.
C10_IffEqualIgnoringCaseAndPadding ==
    [][\A u \in UsernameInputs, p \in PasswordInputs :
          AdminLogin(u, p) =>
             AuthenticateContract(
                {i \in 1..Len(admins) : Lower(admins[i].username) = Lower(Strip(u))}, p)
      ]_vars

C10_Witness ==
    /\ ev.pc = "login"
    /\ \E i, j \in 1..Len(admins) :
          /\ admins[i].id = ev.snap[Len(ev.snap)].admin_id
          /\ admins[i].last_login_at = clock
          /\ clock > 0
          /\ ~admins[j].is_active

(***************************************************************************)
(* Claims about the upload pipeline                                        *)
(***************************************************************************)
\* the records of batch u in a copy of the uploads collection
BatchRecords(doc, u) == {i \in 1..Len(doc.batches) : doc.batches[i].id = u}
FileRecords(doc, u) == {i \in 1..Len(doc.files) : doc.files[i].upload_batch_id = u}

\* nothing of batch u is left: no blob, no batch record, no file record
NothingLeft(u) ==
    /\ \A k \in FileIndexes : blobs[StoredName(u, k)] = Absent
    /\ BatchRecords(uploads, u) = {}
    /\ FileRecords(uploads, u) = {}

\* C1: once create_upload_batch has failed while streaming a file of a
\* batch (the size cap, an I/O error, any exception of the chunk loop),
\* the files directory holds no blob of that batch, neither an earlier
\* complete one nor the partial one, and the uploads collection holds no
\* batch record and no file record of that batch.
C1_FailedBatchLeavesNothing ==
    \A u \in Uploads :
        up[u].pc = "failed" /\ up[u].cause \in {"too_large", "io", "close"} =>
            NothingLeft(u)

\* C1, for the failures raised inside the try block of _save_upload_file
\* (the size cap, an error of the open, of a read, of a write or of the
\* flush of the blob): nothing of the batch is left.
C1_FailureInsideTryLeavesNothing ==
    \A u \in Uploads :
        up[u].pc = "failed" /\ up[u].cause \in {"too_large", "io"} => NothingLeft(u)

\* a batch fails on its second file, over the cap, after its first file was
\* written completely, while the blobs of another batch stay on disk
C1_Witness ==
    \E u, v \in Uploads :
        /\ up[u].pc = "failed" /\ up[u].cause = "too_large" /\ up[u].k = 2
        /\ v # u /\ up[v].pc = "done"
        /\ blobs[StoredName(v, 1)] = Mebibyte

\* request u writes the uploads collection in this step
WritesUploads(u) == up'[u].writes # up[u].writes

\* C2: create_upload_batch writes the uploads collection exactly once in a
\* successful request and never in a failed one; the write comes after the
\* last blob of the batch is complete, so that at the write every file
\* record of the batch names a blob that is on disk with exactly
\* size_bytes bytes.
C2_SingleWriteAfterAllBlobs ==
    [][\A u \in Uploads :
          /\ up'[u].writes = (IF up'[u].pc = "done" THEN 1 ELSE 0)
          /\ BatchRecords(uploads', u) # BatchRecords(uploads, u) /\ BatchRecords(uploads, u) = {}
                => WritesUploads(u)
          /\ WritesUploads(u) =>
                /\ up[u].pc = "closing" /\ up[u].pending = "none"
                /\ Cardinality(FileRecords(uploads', u)) = up'[u].n
                /\ \A k \in 1..up'[u].n :
                      \E i \in FileRecords(uploads', u) :
                          uploads'.files[i].stored_filename = StoredName(u, k)
                /\ \A i \in FileRecords(uploads', u) :
                      /\ blobs'[uploads'.files[i].stored_filename] # Absent
                      /\ blobs'[uploads'.files[i].stored_filename] = uploads'.files[i].size_bytes
      ]_vars

\* a batch of two files is committed: one write, both blobs on disk with
\* the recorded sizes, one of them filled to the cap
C2_Witness ==
    \E u \in Uploads :
        /\ up[u].pc = "done" /\ up[u].n = 2 /\ up[u].writes = 1
        /\ \A k \in 1..2 :
              \E i \in FileRecords(uploads, u) :
                  /\ uploads.files[i].stored_filename = StoredName(u, k)
                  /\ blobs[StoredName(u, k)] = uploads.files[i].size_bytes
        /\ blobs[StoredName(u, 2)] = Mebibyte

\* the file ids a copy of the uploads collection holds, and those it holds
\* as deleted
PersistedIds(doc) == {doc.files[i].id : i \in 1..Len(doc.files)}
DeletedIds(doc) == {doc.files[i].id : i \in {j \in 1..Len(doc.files) : doc.files[j].is_deleted}}

\* C11: is_deleted only goes from false to true: a file record persisted
\* with is_deleted = true is never persisted afterwards with is_deleted =
\* false, whatever upload batches, admin deletes and retention passes
\* interleave.
C11_IsDeletedMonotone ==
    [][\A i \in 1..Len(uploads'.files) :
          uploads'.files[i].id \in DeletedIds(uploads) => uploads'.files[i].is_deleted]_vars

\* C12: a committed batch record stays in the uploads collection with the
\* same fields, and every file record stays in the collection, in every
\* later state: no overlapping upload, admin delete or retention pass
\* removes them.
C12_CommittedBatchStays ==
    [][/\ \A i \in 1..Len(uploads.batches) :
             \E j \in 1..Len(uploads'.batches) : uploads'.batches[j] = uploads.batches[i]
       /\ PersistedIds(uploads) \subseteq PersistedIds(uploads')]_vars

(***************************************************************************)
(* Claims about the retention pass and its daemon                          *)
(***************************************************************************)
\* the daemon runs a pass in this step
PassStep == daemon'.passes # daemon.passes

\* C13: a pass with retention_days > 0 transitions exactly the file
\* records that are not deleted and have a readable created_at at or
\* before now minus retention_days: each gets is_deleted = true and a
\* deleted_at, and its blob is removed unless the removal fails; a missing
\* or unremovable blob does not stop the pass; every other file record and
\* every batch record is left as it was.
C13_PassTransitionsExactlyExpired ==
    [][PassStep /\ Settings.retention_days > 0 =>
          LET cutoff == clock - Settings.retention_days * 24
              old == uploads.files
              new == uploads'.files
              due(i) == /\ ~old[i].is_deleted
                        /\ old[i].created_at \notin {NoTime, BadTime}
                        /\ old[i].created_at <= cutoff
          IN  /\ uploads'.batches = uploads.batches
              /\ Len(new) = Len(old)
              /\ \A i \in 1..Len(old) :
                    IF due(i)
                    THEN /\ new[i] = [old[i] EXCEPT !.is_deleted = TRUE, !.deleted_at = clock]
                         /\ blobs'[old[i].stored_filename] \in {Absent, blobs[old[i].stored_filename]}
                    ELSE new[i] = old[i]
              /\ \A b \in BlobNames :
                    blobs'[b] # blobs[b] =>
                        /\ blobs'[b] = Absent
                        /\ \E i \in 1..Len(old) : due(i) /\ old[i].stored_filename = b
      ]_vars

\* the pass after 24 hours has deleted the first record, whose blob could
\* not be removed, next to a record with an unreadable timestamp that it
\* left alone
C13_Witness ==
    /\ daemon.passes = 2
    /\ Len(uploads.files) = 2
    /\ uploads.files[1].is_deleted /\ uploads.files[1].deleted_at = ClockStep
    /\ blobs[uploads.files[1].stored_filename] = Mebibyte
    /\ uploads.files[2].created_at = BadTime /\ ~uploads.files[2].is_deleted

\* C14: a second pass right after a pass, with no time elapsed and nothing
\* in between, changes no record (deleted_at is not rewritten), removes no
\* blob, does not write the collection and meets no error on the blobs
\* already removed: twice is the same as once.
C14_PassTwiceIsOnce ==
    [][PassStep =>
          \A stuck \in SUBSET BlobNames :
              LET again == RetentionPass(uploads', blobs', Settings, clock', stuck)
              IN  /\ again.uploads = uploads'
                  /\ again.blobs = blobs'
                  /\ ~again.wrote
      ]_vars

\* a pass has just deleted a record and its blob
C14_Witness ==
    /\ daemon.passes = 2
    /\ \E i \in 1..Len(uploads.files) :
          /\ uploads.files[i].is_deleted /\ uploads.files[i].deleted_at = ClockStep
          /\ blobs[uploads.files[i].stored_filename] = Absent

\* C15: the daemon runs one pass when it starts, then waits for the signal
\* for up to 24 hours; a wait that times out is followed by exactly one
\* pass, a wait ended by the signal by the return.  So the passes are one
\* more than the waits that timed out, and no pass runs once the signal
\* has been observed.
C15_PassesAreOnePlusTimeouts ==
    [][/\ daemon'.passes = (IF daemon'.pc = "created" THEN 0 ELSE 1 + daemon'.timeouts)
       /\ daemon.pc = "created" /\ daemon' # daemon => daemon'.passes = 1
       /\ daemon.pc = "waiting" /\ PassStep =>
             /\ clock >= daemon.since + 24
             /\ daemon'.passes = daemon.passes + 1
             /\ daemon'.timeouts = daemon.timeouts + 1
       /\ daemon.pc = "waiting" /\ daemon' # daemon /\ ~PassStep =>
             shutdown /\ daemon'.pc = "returned"
       /\ PassStep => daemon'.pc = (IF shutdown THEN "returned" ELSE "waiting")
       /\ daemon.pc = "returned" => daemon' = daemon
      ]_vars

\* the daemon has run its first pass and one more after a wait that timed
\* out, and has returned on the signal
C15_Witness ==
    /\ daemon.pc = "returned" /\ shutdown
    /\ daemon.passes = 2 /\ daemon.timeouts = 1

\* C16: once the shutdown signal is set the daemon eventually returns, and
\* it does so without the rest of the 24 hours going by (time need not
\* pass at all); a pass that runs is run to its end, signal or not.
C16_ShutdownEndsTheDaemon ==
    /\ shutdown ~> daemon.pc = "returned"
    /\ [](shutdown /\ daemon.pc = "waiting" => ENABLED DaemonWake)
    /\ [][PassStep =>
             \E stuck \in SUBSET BlobNames :
                 LET pass == RetentionPass(uploads, blobs, Settings, clock, stuck)
                 IN  uploads' = pass.uploads /\ blobs' = pass.blobs]_vars

\* the daemon has returned on the signal in the middle of its first wait
C16_Witness ==
    /\ shutdown /\ daemon.pc = "returned"
    /\ daemon.passes = 1
    /\ clock < daemon.since + 24

(***************************************************************************)
(* Claims about the uploader directory                                     *)
(***************************************************************************)
\* a grade from 7 to 12
GoodGrade(grade) == grade # <<>> /\ grade[1] \in 7..12
\* the name of the request is not blank and belongs to no uploader
Fresh(who) ==
    /\ NormalizeName(who.name) # <<>>
    /\ \A i \in 1..Len(uploaders) :
          uploaders[i].normalized_name # NormalizeName(who.name)

\* C17: resolving a name that matches no uploader adds a record with
\* is_active_for_upload = TRUE exactly when the supplied grade is an
\* integer from 7 to 12; with a missing grade or one outside the range the
\* call is rejected (400) and the collection is unchanged.
C17_NewUploaderNeedsGrade ==
    \A who \in DirectoryInputs :
        Fresh(who) =>
            LET resolved == ResolveOrCreateUploader(uploaders, who.name, who.grade)
            IN  IF GoodGrade(who.grade)
                THEN /\ resolved.status = 0
                     /\ Len(resolved.uploaders) = Len(uploaders) + 1
                     /\ SubSeq(resolved.uploaders, 1, Len(uploaders)) = uploaders
                     /\ LET uploader == resolved.uploaders[Len(resolved.uploaders)]
                        IN  /\ uploader.id = resolved.id
                            /\ uploader.normalized_name = NormalizeName(who.name)
                            /\ uploader.grade = who.grade
                            /\ uploader.is_active_for_upload
                ELSE /\ resolved.status = 400
                     /\ resolved.uploaders = uploaders

\* create_uploader has just added a second uploader: the grades 7 and 12
\* were both accepted
C17_Witness ==
    /\ resp.op = "create_uploader" /\ resp.status = 200
    /\ Len(uploaders) = 2
    /\ {uploaders[1].grade, uploaders[2].grade} = {<<7>>, <<12>>}
    /\ uploaders[1].is_active_for_upload /\ uploaders[2].is_active_for_upload

\* C18: in every reachable state the grade of every uploader record is
\* absent or an integer from 7 to 12.
C18_GradesInRange ==
    \A i \in 1..Len(uploaders) :
        uploaders[i].grade = <<>> \/ uploaders[i].grade[1] \in 7..12

\* C18, for the records made and edited without the backfill: a step that
\* adds a record, or changes the grade of a record that had one, stores a
\* grade that is absent or from 7 to 12.
C18_GradesInRangeButBackfill ==
    [][\A i \in 1..Len(uploaders') :
          (i > Len(uploaders) \/ uploaders[i].grade # <<>>) =>
              \/ i <= Len(uploaders) /\ uploaders'[i].grade = uploaders[i].grade
              \/ uploaders'[i].grade = <<>>
              \/ uploaders'[i].grade[1] \in 7..12
      ]_vars

\* an admin edit has given a grade to a record that had one
C18_Witness ==
    /\ resp.op = "update_uploader" /\ resp.status = 200
    /\ Len(uploaders) = 2
    /\ uploaders[1].grade = <<7>> /\ uploaders[2].grade = <<7>>
    /\ uploaders[2].display_name = <<"z", "o", "e">>

C20_AdminUsernamesUnique ==
    [][/\ \A i, j \in 1..Len(admins') :
            i # j => Lower(admins'[i].username) # Lower(admins'[j].username)
       /\ resp'.op = "create_admin" =>
            \A r \in Slots, u \in UsernameInputs, p \in NewPasswords :
               /\ Len(p) >= MIN_PASSWORD_LEN
               /\ \E i \in 1..Len(admins) :
                     Lower(admins[i].username) = Lower(Strip(u))
               /\ CreateAdminUser(r, u, p)
               => resp'.status = 409 /\ admins' = admins
       /\ (\E i \in 1..Len(admins) :
              Lower(admins[i].username) = Lower(DEFAULT_ADMIN_USERNAME))
          /\ StartupEvent
          => admins' = admins
      ]_vars

\* a creation under the name of the default admin has been refused with
\* a conflict
C20_Witness ==
    /\ resp.op = "create_admin" /\ resp.status = 409
    /\ \E i \in 1..Len(admins) : admins[i].username = DEFAULT_ADMIN_USERNAME

(***************************************************************************)
(* Claims about uploads and the uploader directory together               *)
(***************************************************************************)
\* the uploader record with that id has a grade
HasGrade(uploader_id) ==
    \E i \in 1..Len(uploaders) :
        uploaders[i].id = uploader_id /\ uploaders[i].grade # <<>>

\* C21: an uploader record with no grade is never attributed an upload: a
\* request without a grade under the name of a record without a grade is
\* rejected (400) and adds no record, a rejected request commits no
\* batch, and every batch being streamed or committed belongs to a record
\* that has a grade.
C21_NoGradeNoUpload ==
    /\ \A who \in AttributionInputs, i \in 1..Len(uploaders) :
          /\ uploaders[i].normalized_name = NormalizeName(who.name)
          /\ uploaders[i].grade = <<>>
          /\ who.grade = <<>>
          => LET resolved == ResolveOrCreateUploader(uploaders, who.name, who.grade)
             IN  resolved.status = 400 /\ resolved.uploaders = uploaders
    /\ \A u \in Uploads :
          /\ up[u].pc \in {"reading", "closing"} => HasGrade(up[u].uploader)
          /\ up[u].cause = "rejected" =>
                \A j \in 1..Len(uploads.batches) : uploads.batches[j].id # u
    /\ \A j \in 1..Len(uploads.batches) : HasGrade(uploads.batches[j].uploader_profile_id)

\* the one uploader was imported without a grade; one request was
\* rejected, and after the record got a grade another was committed
C21_Witness ==
    /\ Len(uploaders) = 1
    /\ uploaders[1].display_name = <<"Z", "O", "E">>
    /\ up[1].cause = "rejected" /\ up[1].status = 400
    /\ up[2].pc = "done"
    /\ Len(uploads.batches) = 1 /\ uploads.batches[1].uploader_profile_id = 1

\* C22: a resolution that finds a record with is_active_for_upload false
\* after the grade backfill is rejected (400) and commits no batch; a
\* disabled record that has a grade is rejected whatever grade is
\* supplied, and the collection is left as it was.
C22_DisabledIsRejected ==
    /\ \A who \in DirectoryInputs :
          LET resolved == ResolveOrCreateUploader(uploaders, who.name, who.grade)
          IN  /\ resolved.status = 0 =>
                    \E i \in 1..Len(resolved.uploaders) :
                        /\ resolved.uploaders[i].id = resolved.id
                        /\ resolved.uploaders[i].is_active_for_upload
              /\ \A i \in 1..Len(uploaders) :
                    /\ uploaders[i].normalized_name = NormalizeName(who.name)
                    /\ ~uploaders[i].is_active_for_upload
                    /\ uploaders[i].grade # <<>>
                    => resolved.status = 400 /\ resolved.uploaders = uploaders
    /\ \A u \in Uploads :
          up[u].pc = "failed" /\ up[u].status = 400 =>
              \A j \in 1..Len(uploads.batches) : uploads.batches[j].id # u

\* the uploader has a committed batch and was then disabled by an admin;
\* the next request in its name was rejected
C22_Witness ==
    /\ Len(uploaders) = 1
    /\ uploaders[1].grade = <<7>> /\ ~uploaders[1].is_active_for_upload
    /\ resp.op = "disable_uploader" /\ resp.status = 200
    /\ up[1].pc = "done"
    /\ up[2].pc = "failed" /\ up[2].status = 400
    /\ Len(uploads.batches) = 1

\* the step is a create_upload_batch request that validation rejects
Rejects(u) == up[u].pc = "idle" /\ up'[u].pc = "failed" /\ up'[u].cause = "rejected"

\* C23: a create_upload_batch request rejected by validation leaves every
\* collection unchanged, the uploaders included.
C23_RejectedChangesNothing ==
    [][\A u \in Uploads :
          Rejects(u) => uploaders' = uploaders /\ uploads' = uploads /\ blobs' = blobs
      ]_vars

\* C23, without the uploaders: a request rejected by validation leaves
\* the uploads collection and the files directory unchanged.
C23_RejectedLeavesUploads ==
    [][\A u \in Uploads : Rejects(u) => uploads' = uploads /\ blobs' = blobs]_vars

\* a request was rejected while a batch is committed and its blob stored
C23_Witness ==
    /\ up[1].pc = "done" /\ Len(uploads.batches) = 1
    /\ blobs[StoredName(1, 1)] # Absent
    /\ up[2].pc = "failed" /\ up[2].cause = "rejected"

\* the access the claim grants: open_lan, or shared_password with a
\* configured password that the supplied one equals
Allowed(settings, upload_password) ==
    \/ settings.upload_access_mode = "open_lan"
    \/ /\ settings.upload_access_mode = "shared_password"
       /\ settings.upload_shared_password # ""
       /\ upload_password = <<settings.upload_shared_password>>

\* C24: a create_upload_batch request passes the access check only under
\* open_lan, or under shared_password with a non-empty configured password
\* equal to the supplied one; otherwise it is rejected (401, 403, 503)
\* with the uploader not resolved and nothing written.
C24_AccessCheckedFirst ==
    [][\A u \in Uploads, settings \in AccessSettings, upload_password \in PasswordFields :
          CreateUploadBatchUnder(u, settings, upload_password, AccessUploader,
                                 AcceptedBatch[1], AcceptedBatch[2], AcceptedBatch[3], TRUE)
          => IF Allowed(settings, upload_password)
             THEN up'[u].pc = "reading"
             ELSE /\ up'[u].pc = "failed"
                  /\ up'[u].status \in {401, 403, 503}
                  /\ uploaders' = uploaders
                  /\ uploads' = uploads
                  /\ blobs' = blobs
      ]_vars

\* requests were refused with each of the three statuses before any
\* uploader exists
C24_Witness ==
    /\ uploaders = <<>>
    /\ up[1].pc = "failed" /\ up[1].status = 503
    /\ up[2].pc = "failed" /\ up[2].status = 401

\* the cap on a file, in bytes
CapBytes == Settings.max_file_size_mb * 1024 * 1024

\* C25: _save_upload_file accepts a file of n bytes exactly when n is at
\* most max_file_size_mb * 1024 * 1024 and returns n, which becomes
\* size_bytes; at the chunk with which the count first exceeds the cap it
\* stops without writing the chunk and removes the partial file.
C25_SizeCap ==
    [][\A u \in Uploads :
          LET name == StoredName(u, up[u].k)
          IN  /\ \A len \in SaveChunkLens :
                    ReadChunk(u, len, TRUE) =>
                        IF len = 0
                        THEN /\ up'[u].pc = "closing" /\ up'[u].pending = "none"
                             /\ up'[u].size = up[u].size /\ blobs'[name] = up[u].size
                        ELSE IF up[u].size + len <= CapBytes
                        THEN /\ up'[u].pc = "reading"
                             /\ up'[u].size = up[u].size + len
                             /\ blobs'[name] = up[u].size + len
                        ELSE /\ up'[u].pc = "closing" /\ up'[u].pending = "too_large"
                             /\ up[u].size <= CapBytes
                             /\ blobs'[name] = Absent
              /\ up[u].pc = "closing" /\ up'[u].pc = "done" =>
                    /\ up[u].size <= CapBytes
                    /\ \E i \in 1..Len(uploads'.files) :
                          /\ uploads'.files[i].id = FileId(u, up[u].k)
                          /\ uploads'.files[i].size_bytes = up[u].size
                          /\ blobs'[name] = up[u].size
              /\ up[u].pc = "closing" /\ up'[u].pc = "failed" =>
                    /\ up'[u].status = 400
                    /\ blobs'[name] = Absent
                    /\ uploads' = uploads
      ]_vars

\* a file of exactly the cap has been committed, and a file one byte
\* longer refused
C25_Witness ==
    /\ up[1].pc = "done"
    /\ Len(uploads.files) = 1 /\ uploads.files[1].size_bytes = CapBytes
    /\ blobs[StoredName(1, 1)] = CapBytes
    /\ up[2].pc = "failed" /\ up[2].cause = "too_large"
    /\ blobs[StoredName(2, 1)] = Absent

\* C26: after an upload was cancelled while its files were streamed to
\* disk, no blob of the batch, partial or complete, is in the files
\* directory and no metadata of the batch is persisted.
C26_CancelledLeavesNothing ==
    \A u \in Uploads : up[u].pc = "cancelled" => NothingLeft(u)

\* C26, the metadata alone: a cancelled upload has no batch record and no
\* file record in the uploads collection.
C26_CancelledPersistsNoMetadata ==
    \A u \in Uploads :
        up[u].pc = "cancelled" =>
            BatchRecords(uploads, u) = {} /\ FileRecords(uploads, u) = {}

\* an upload of two files was cancelled in its second file while another
\* upload was committed
C26_Witness ==
    /\ up[1].pc = "cancelled" /\ up[1].n = 2 /\ up[1].k = 2
    /\ up[2].pc = "done"
    /\ Len(uploads.batches) = 1

\* C27: the uploader_display_name_snapshot of a batch is the display name
\* the uploader had when the request was made, and no later step changes
\* it: the admin edits of the uploader directory (rename, disable,
\* import) leave the uploads collection unchanged.
C27_SnapshotFrozen ==
    [][/\ \A i \in 1..Len(uploads.batches), j \in 1..Len(uploads'.batches) :
            uploads'.batches[j].id = uploads.batches[i].id =>
                uploads'.batches[j].uploader_display_name_snapshot
                    = uploads.batches[i].uploader_display_name_snapshot
       /\ resp' # resp /\ resp'.op \in {"update_uploader", "disable_uploader", "import_legacy"}
            => uploads' = uploads
       /\ \A u \in Uploads :
            /\ up[u].pc = "idle" /\ up'[u].pc = "reading" =>
                  \E i \in 1..Len(uploaders') :
                      /\ uploaders'[i].id = up'[u].uploader
                      /\ uploaders'[i].display_name = up'[u].snapshot
            /\ up[u].pc = "closing" /\ up'[u].pc = "done" =>
                  \E j \in 1..Len(uploads'.batches) :
                      /\ uploads'.batches[j].id = u
                      /\ uploads'.batches[j].uploader_display_name_snapshot = up[u].snapshot
      ]_vars

\* the uploader was renamed after its batch was committed: the batch
\* keeps the old name
C27_Witness ==
    /\ resp.op = "update_uploader" /\ resp.status = 200
    /\ Len(uploaders) = 1 /\ uploaders[1].display_name = <<"z", "o", "e">>
    /\ Len(uploads.batches) = 1
    /\ uploads.batches[1].uploader_profile_id = 1
    /\ uploads.batches[1].uploader_display_name_snapshot = <<"Z", "o", "e">>

\* the record of file id in a payload is marked deleted
MarkedDeleted(payload, file_id) ==
    \E i \in 1..Len(payload.files) :
        payload.files[i].id = file_id /\ payload.files[i].is_deleted

\* neither the listing nor the download gives the file
Hidden(payload, files_dir, file_id) ==
    /\ \A shown \in ShownFiles(BuildAdminUploadView(payload, files_dir)) :
          shown.file_id # file_id
    /\ DownloadResponse(payload, files_dir, file_id).status = 404

\* what admin_delete_many leaves of the records it was asked to delete
DeleteEffect(file_ids, stuck) ==
    \A i \in 1..Len(uploads.files) :
        uploads.files[i].id \in file_ids /\ ~uploads.files[i].is_deleted
        => /\ Len(uploads'.files) = Len(uploads.files)
           /\ uploads'.files[i] = [uploads.files[i] EXCEPT !.is_deleted = TRUE,
                                                             !.deleted_at = clock]
           /\ uploads'.files[i].deleted_at # NoTime
           /\ uploads.files[i].stored_filename \notin stuck
              => blobs'[uploads.files[i].stored_filename] = Absent
           /\ Hidden(uploads', blobs', uploads.files[i].id)

\* C28: admin_delete_many keeps the record of a file it deletes, marked
\* is_deleted with a deleted_at, and removes its blob when the unlink
\* succeeds; from then on, in every later state, the admin listing does not
\* show the file and its download answers 404
C28_DeletedStaysHidden ==
    [][/\ \A request \in DeleteRequests :
            AdminDeleteMany(request[1], request[2])
            => DeleteEffect(request[1], request[2])
       /\ \A file_id \in FileIds :
            MarkedDeleted(uploads, file_id) => Hidden(uploads', blobs', file_id)]_vars

\* C28, as far as it holds: admin_delete_many has the stated effect on the
\* record and the blob, and a file is hidden for as long as its record is
\* marked deleted
C28_DeletedIsHidden ==
    [][/\ \A request \in DeleteRequests :
            AdminDeleteMany(request[1], request[2])
            => DeleteEffect(request[1], request[2])
       /\ \A file_id \in FileIds :
            MarkedDeleted(uploads', file_id) => Hidden(uploads', blobs', file_id)]_vars

\* a listing that shows one file of a batch and not the deleted other one
C28_Witness ==
    /\ resp.op = "admin_uploads"
    /\ resp.files # {}
    /\ \E i \in 1..Len(uploads.files) :
          /\ uploads.files[i].is_deleted
          /\ uploads.files[i].deleted_at = clock
          /\ blobs[uploads.files[i].stored_filename] = Absent
          /\ \A shown \in resp.files : shown.file_id # uploads.files[i].id

\* Path(name).suffix: from the last dot, when the dot is neither the first
\* nor the last character
SuffixOf(name) ==
    LET dots == {i \in 1..Len(name) : name[i] = "."}
        last == CHOOSE i \in dots : \A j \in dots : j <= i
    IN  IF dots = {} \/ last = 1 \/ last = Len(name)
        THEN <<>>
        ELSE SubSeq(name, last, Len(name))

\* str.endswith
EndsWith(str, tail) ==
    /\ Len(tail) <= Len(str)
    /\ SubSeq(str, Len(str) - Len(tail) + 1, Len(str)) = tail

\* the effective filename of a file record, as the tests of
\* _effective_filename state it (test_upload_filenames.py:31-53)
EffectiveFilename(file_entry) ==
    LET description == Strip(file_entry.description)
        extension == SuffixOf(file_entry.original_filename)
    IN  IF description = <<>>
        THEN file_entry.original_filename
        ELSE IF extension = <<>> \/ EndsWith(Lower(description), Lower(extension))
        THEN description
        ELSE description \o extension

\* a listing, a download-many or a download is answered in this step
FilesAnswered ==
    /\ resp' # resp
    /\ resp'.op \in {"admin_uploads", "download_many", "download"}

\* C29: the filename the admin uploads view, download-many and the
\* single-file download give for a file is its effective filename: the
\* trimmed description followed by the extension of original_filename, the
\* description alone when it already ends with that extension (ignoring
\* case) or when original_filename has no extension, and original_filename
\* when the description is blank
C29_EffectiveFilenameShown ==
    [][FilesAnswered
       => \A shown \in resp'.files :
             \E i \in 1..Len(uploads.files) :
                 /\ uploads.files[i].id = shown.file_id
                 /\ shown.filename = EffectiveFilename(uploads.files[i])]_vars

\* C29, as the code has it: the three answers give the original_filename
\* of the record, whatever its description
C29_OriginalFilenameShown ==
    [][FilesAnswered
       => \A shown \in resp'.files :
             \E i \in 1..Len(uploads.files) :
                 /\ uploads.files[i].id = shown.file_id
                 /\ shown.filename = uploads.files[i].original_filename]_vars

\* a file described "Am" and sent as part.stl is listed as part.stl
C29_Witness ==
    /\ resp.op = "admin_uploads"
    /\ \E shown \in resp.files :
          \E i \in 1..Len(uploads.files) :
              /\ uploads.files[i].id = shown.file_id
              /\ uploads.files[i].description = <<"A", "m">>
              /\ shown.filename = <<"p", "a", "r", "t", ".", "s", "t", "l">>

\* thread t reads back the collection it has written and no other thread
\* has written
ReadsBack(t) ==
    /\ tpc[t] = "stored"
    /\ \A u \in Threads \ {t} : tpc[u] \notin {"stored", "reloaded"} \/ top[u] # top[t]
    /\ ReadCollection(t, top[t])

\* a document made of JSON values only: str, int, bool, None, lists, and
\* dicts whose keys are distinct strings
RECURSIVE JsonNative(_)
JsonNative(value) ==
    CASE value[1] \in {"list"} -> \A i \in 1..Len(value[2]) : JsonNative(value[2][i])
      [] value[1] = "tuple" -> FALSE
      [] value[1] = "dict" ->
            \A i \in 1..Len(value[2]) :
                /\ value[2][i][1][1] = "str"
                /\ JsonNative(value[2][i][2])
      [] OTHER -> TRUE

\* C30: for every collection and every document json.dump accepts, a write
\* followed by a read of the same collection, with no other write in
\* between, returns a document equal to the one written
C30_WriteThenRead ==
    [][\A t \in Threads : ReadsBack(t) => tdata'[t] = tdata[t]]_vars

\* C30, amended: the same for every document made of JSON values only
C30_WriteThenReadJson ==
    [][\A t \in Threads :
          ReadsBack(t) /\ JsonNative(tdata[t]) => tdata'[t] = tdata[t]]_vars

\* the settings are read back equal, with a list under one of their keys
C30_Witness ==
    \E t \in Threads :
        /\ tpc[t] = "reloaded"
        /\ top[t] = "settings"
        /\ JsonNative(tdata[t])
        /\ target["settings"] = JsonDump(tdata[t])
        /\ \E i \in 1..Len(tdata[t][2]) : tdata[t][2][i] = <<PyStr("a"), PyList(<<PyInt("1")>>)>>

(***************************************************************************)
(* Claims about passwords, sessions and settings                           *)
(***************************************************************************)
\* the texts that must not verify under any password
Unverifiable ==
    UNION {UNION {WrongAlgorithm(h) \cup Tampered(h) \cup Malformed(q, h) :
                     h \in HashPassword(q)} : q \in PasswordInputs}

\* C31: verify_password(p, hash_password(p)) is true for every password p;
\* verify_password is false, and raises nothing, for a wrong password, a
\* tampered hash, a wrong algorithm tag and a malformed encoding (too few
\* fields, a salt that is no hex, a count that is no number or below one)
C31_VerifyPassword ==
    \A i \in 1..Len(admins) :
        \A p \in PasswordInputs :
            LET encoded == admins[i].password_hash
            IN  /\ VerifyPassword(p, encoded) \in BOOLEAN
                /\ encoded \in HashPassword(p) => VerifyPassword(p, encoded)
                /\ (\E q \in PasswordInputs \ {p} : encoded \in HashPassword(q))
                   => ~VerifyPassword(p, encoded)
                /\ encoded \in Unverifiable => ~VerifyPassword(p, encoded)

\* a login with the right password is refused because the stored text has
\* the count written with a leading zero
C31_Witness ==
    /\ resp.op = "login"
    /\ resp.status = 401
    /\ \E h \in HashPassword(BootstrapPassword) :
          admins[1].password_hash = [h EXCEPT ![3] = Text("0390000")]

\* C32: when a call of session validation completes, accepted or rejected,
\* the sessions collection holds no session whose expires_at is at or before
\* the instant the call took as now.
Completes(r) ==
    /\ reqs[r].pc \notin {"idle", "validated"}
    /\ reqs'[r].pc \in {"idle", "validated"}

C32_NoExpiredSessionAfterValidation ==
    [][\A r \in Slots :
          Completes(r) =>
              \A i \in 1..Len(sessions') : sessions'[i].expires_at > reqs[r].now]_vars

(***************************************************************************)
(* Claims about the validation of a batch                                  *)
(***************************************************************************)
\* A row fails validation: its description or its version is blank, or the
\* allow-list is not empty and holds no extension equal, ignoring case, to
\* the file's.
RowFails(description, version, file, settings) ==
    \/ Strip(description) = <<>>
    \/ Strip(version) = <<>>
    \/ /\ settings.allowed_extensions # {}
       /\ \A ext \in settings.allowed_extensions : Lower(ext) # Lower(file.suffix)

\* the request of slot u in this step is form b under settings
Sends(u, settings, b) ==
    CreateUploadBatchUnder(u, settings, <<>>, AccessUploader, b[1], b[2], b[3], TRUE)

\* C33: a batch with a row that fails validation is refused in the step that
\* takes it, before any byte is written: the request has returned with
\* status 400, no blob has been created and the uploads collection is
\* unchanged, also when the rows before the failing one are valid.
C33_InvalidRowWritesNothing ==
    [][\A u \in Uploads, settings \in {Settings, AnyExtensionSettings}, b \in RowInputs :
          /\ \E index \in 1..Len(b[3]) :
                 RowFails(b[1][index], b[2][index], b[3][index], settings)
          /\ Sends(u, settings, b)
          => /\ up'[u].pc = "failed"
             /\ up'[u].status = 400
             /\ blobs' = blobs
             /\ uploads' = uploads]_vars

\* a request of two rows has been refused for a row that fails validation,
\* next to a request whose two valid rows are being written
C33_Witness ==
    \E u, v \in Uploads :
        /\ up[u].pc = "failed" /\ up[u].status = 400 /\ up[u].n = 2
        /\ up[v].pc \in {"reading", "closing"} /\ up[v].n = 2

(***************************************************************************)
(* Claims about the retention pass                                         *)
(***************************************************************************)
\* the daemon runs a pass in this step, under settings and with the blobs
\* stuck failing to unlink
Passes(settings, stuck) ==
    DaemonStartUnder(settings, stuck) \/ DaemonTimeoutUnder(settings, stuck)

\* the file records the step has transitioned to deleted
Transitioned ==
    {i \in 1..Len(uploads.files) :
        ~uploads.files[i].is_deleted /\ uploads'.files[i].is_deleted}

\* C34: a cleanup pass writes the uploads collection when, and only when,
\* it has transitioned at least one file record; otherwise the collection
\* is left as it was, and under retention_days <= 0 the pass changes no
\* record and removes no blob.
C34_PassWritesWhenChanged ==
    [][\A settings \in RetentionSettings, stuck \in StuckBlobs :
          Passes(settings, stuck) =>
              LET wrote == RetentionPass(uploads, blobs, settings, clock, stuck).wrote
              IN  /\ Len(uploads'.files) = Len(uploads.files)
                  /\ wrote <=> Transitioned # {}
                  /\ ~wrote => uploads' = uploads
                  /\ settings.retention_days <= 0 =>
                        ~wrote /\ uploads' = uploads /\ blobs' = blobs]_vars

\* the pass after the first timeout has left alone a record a day old and
\* its blob (its period was two days, or not positive), next to a record
\* deleted before
C34_Witness ==
    /\ daemon.timeouts >= 1
    /\ daemon.since = clock
    /\ \E i, j \in 1..Len(uploads.files) :
          /\ ~uploads.files[i].is_deleted
          /\ uploads.files[i].created_at = 0
          /\ clock >= HOURS_PER_DAY
          /\ blobs[uploads.files[i].stored_filename] # Absent
          /\ uploads.files[j].is_deleted

(***************************************************************************)
(* Claims about handlers that run at the same time                         *)
(***************************************************************************)
\* thread t has handled its request, a read followed by a write, to the end
SplitDone(t) == top[t] = "split" /\ tpc[t] = "done"

RemovesOnPurpose(token) ==
    \/ ev.pc = "logout" /\ ev.token = token /\ ev'.pc = "idle"
    \/ \E r \in Slots :
          /\ reqs[r].pc \in {"expired_del", "unavailable_del"}
          /\ reqs[r].token = token
          /\ reqs'[r].pc = "idle"

\* C36: a session in the collection that has not expired stays in it over
\* every step that is not its own logout or its own rejection: no sweep, no
\* deletion of another token, no login and no logout of another token
\* removes it.
C36_SessionStays ==
    [][\A i \in 1..Len(sessions) :
          sessions[i].expires_at > clock /\ ~RemovesOnPurpose(sessions[i].id)
              => \E j \in 1..Len(sessions') : sessions'[j] = sessions[i]]_vars

(***************************************************************************)
(* Claims about file records                                               *)
(***************************************************************************)
\* C37: every file record of the uploads collection with is_deleted = false
\* has its blob in the files directory, also when the commit of a batch
\* follows an admin delete-many or a retention pass that ran while the batch
\* was streaming.
C37_LiveRecordHasBlob ==
    \A i \in 1..Len(uploads.files) :
        ~uploads.files[i].is_deleted => blobs[uploads.files[i].stored_filename] # Absent

\* C38: a file record has is_deleted = true if and only if its deleted_at is
\* set: records are created with neither, and the admin delete and the
\* retention pass set both.
C38_DeletedIffTimestamp ==
    \A i \in 1..Len(uploads.files) :
        uploads.files[i].is_deleted <=> uploads.files[i].deleted_at # NoTime

\* the collection holds a record deleted a day after its upload, when the
\* first timeout of the daemon has passed, next to a record that is not
\* deleted
C38_Witness ==
    /\ daemon.timeouts >= 1
    /\ \E i, j \in 1..Len(uploads.files) :
          /\ uploads.files[i].is_deleted
          /\ uploads.files[i].deleted_at > uploads.files[i].created_at
          /\ ~uploads.files[j].is_deleted
          /\ uploads.files[j].deleted_at = NoTime

(***************************************************************************)
(* Claims about the settings                                               *)
(***************************************************************************)
\* the body has a field update_settings refuses: retention_days or
\* max_file_size_mb below 1, an unknown upload_access_mode, a port outside
\* 1..65535
InvalidBody(body) ==
    \/ body.retention_days # <<>> /\ body.retention_days[1] < 1
    \/ body.max_file_size_mb # <<>> /\ body.max_file_size_mb[1] < 1
    \/ /\ body.upload_access_mode # <<>>
       /\ body.upload_access_mode[1] \notin {"open_lan", "shared_password", "disabled"}
    \/ \E port \in {body.backend_port, body.web_port} :
          port # <<>> /\ port[1] \notin 1..65535

\* C39: an update_settings request with an invalid field is answered 400
\* and persists nothing, also when the fields checked before the invalid
\* one were valid; so the stored retention_days and max_file_size_mb stay
\* greater than 0.
C39_RejectedUpdatePersistsNothing ==
    [][/\ \A body \in SettingsBodies :
            InvalidBody(body) /\ UpdateSettings(body)
                => target' = target /\ resp'.status = 400
       /\ target'.retention_days > 0
       /\ target'.max_file_size_mb > 0]_vars

\* a request has been refused while the settings hold what an earlier
\* request has stored
C39_Witness ==
    /\ resp.op = "update_settings"
    /\ resp.status = 400
    /\ target.retention_days = 7
    /\ target.backend_port = <<8080>>
====
